---- MODULE Spec2Model ----
(***************************************************************************)
(* A model of ShapesApp (src/unnamed/part_001, the latest revision of the  *)
(* castle scene): the ring of frame resources and its fence, the dirty     *)
(* counts of render items and materials, the command list a Draw records,  *)
(* and the baking of the shared vertex/index buffer.                       *)
(*                                                                         *)
(* Fixed point: lengths of the scene are in tenths of a unit (7.5 is 75),  *)
(* texture-scroll offsets are in units of 1/TexOne.                        *)
(***************************************************************************)
EXTENDS Integers, Sequences, FiniteSets, TLC

\* ------------------------------------------------------------ bounds

\* Update is called at most MaxTicks times (the frame loop itself is endless).
MaxTicks == 7
\* mCurrentFence after Initialize is one of 0..MaxInitFence (D3DApp's flushes).
MaxInitFence == 1
\* GameTimer::DeltaTime() is one of 0..MaxDt, in units that make 0.01*dt one step.
MaxDt == 1
\* 1.0f of a texture coordinate, in steps of the water scroll.
TexOne == 4
\* A baked mesh has 1..MaxVerts vertices and 1..MaxTris triangles.
MaxVerts == 2
MaxTris == 2
\* The baking specification bakes the first NumBaked meshes of the mesh order
\* with free sizes (the others keep their default size).
NumBaked == 3
\* The value an uninitialized UINT holds is one of 0..MaxGarbage.
MaxGarbage == 24
\* The vertex count of a mesh too large for 16-bit indices.
BigVerts == 65537
\* The failure and liveness specifications run at most MaxLoopTicks calls of Update.
MaxLoopTicks == 4
\* The longest delta time of the corner specification, in tenths of a second.
MaxCornerDt == 2
\* The walk into the corner runs at most MaxCornerTicks calls of Update.
MaxCornerTicks == 2
\* The camera specification runs at most MaxCameraTicks calls of Update.
MaxCameraTicks == 1
\* The scene-build specification makes at most MaxCalls calls of MakeThing.
MaxCalls == 2

\* ------------------------------------------------------------ program constants

gNumFrameResources == 3
SwapChainBufferCount == 2

Slots == 0 .. (gNumFrameResources - 1)

\* enum class RenderLayer
Opaque == 0
Transparent == 1
AlphaTestedTreeSprites == 2
RenderLayerCount == 3

VARIABLES
    \* ---- geometry (BuildShapeGeometry / BuildTreeSpritesGeometry)
    meshes,                 \* the generated meshes, by name: their sizes nv, nt
    mGeometries,            \* "shapeGeo" / "treeSpritesGeo" -> baked geometry
    initPc,                 \* the step of Initialize to run next, "done" after it
    \* ---- scene
    mMaterials,             \* name -> Material (with NumFramesDirty, MatTransform)
    mAllRitems,             \* sequence of RenderItem
    mRitemLayer,            \* layer -> sequence of positions in mAllRitems
    \* ---- frame resources and fence
    mFrameResources,        \* slot -> [Fence, ObjectCB, MaterialCB, PassCB]
    mCurrFrameResourceIndex,
    mCurrentFence,          \* CPU's last fence value
    mCurrBackBuffer,
    completed,              \* mFence->GetCompletedValue()
    cmdQueue,               \* mCommandQueue: submitted, not yet executed
    \* ---- the frame loop
    pc,                     \* "init" | "update" | "wait" | "body" | "draw"
    deltaTime,              \* gt.DeltaTime() of the tick in progress
    cmdList,                \* what the last Draw recorded in mCommandList
    \* ---- history (not program state)
    numUpdates,             \* calls of Update so far
    stamped,                \* every fence value ever stamped on a slot
    itemVer, matVer,        \* how often each entity was marked dirty
    itemSince, matSince,    \* refresh passes since the entity was last marked
    \* ---- the rest of the application
    objectIndexnumber,      \* the ObjCBIndex the next render item gets
    mCamera,                \* Camera: mPosition and the basis mRight, mUp, mLook
    player,                 \* BoundingBox player: Center, Extents
    exception,              \* the DxException in flight: "none" or where it was thrown
    diagnostics             \* message boxes WinMain has shown

geoVars == <<meshes, mGeometries, initPc>>
sceneVars == <<mAllRitems, mRitemLayer>>
vars == <<meshes, mGeometries, initPc, mMaterials, mAllRitems, mRitemLayer,
          mFrameResources, mCurrFrameResourceIndex, mCurrentFence,
          mCurrBackBuffer, completed, cmdQueue, pc, deltaTime, cmdList,
          numUpdates, stamped, itemVer, matVer, itemSince, matSince,
          objectIndexnumber, mCamera, player, exception, diagnostics>>
envVars == <<mCamera, player, exception, diagnostics>>
appVars == <<objectIndexnumber, mCamera, player, exception, diagnostics>>

\* ------------------------------------------------------------ helpers

RECURSIVE SumSeq(_)
SumSeq(s) == IF s = <<>> THEN 0 ELSE Head(s) + SumSeq(Tail(s))

Range(s) == { s[i] : i \in DOMAIN s }

\* XMMatrixTranspose, on 4x4 matrices held as sequences of rows.
Transpose(m) == [i \in 1..4 |-> [j \in 1..4 |-> m[j][i]]]

\* XMMatrixScaling(s) * XMMatrixTranslation(p) (row-vector convention): the
\* scale on the diagonal, the translation in the last row.  One is 1.0f.
ScaleTranslate(s, p, One) ==
    << <<s[1], 0, 0, 0>>, <<0, s[2], 0, 0>>, <<0, 0, s[3], 0>>,
       <<p[1], p[2], p[3], One>> >>

Identity4x4(One) == ScaleTranslate(<<One, One, One>>, <<0, 0, 0>>, One)

\* A UINT: 32 bits wide.  The counts of this model stay far below 2^32 (which
\* is beyond the integers of the model checker), so no sum of them wraps.
UInt(x) == x

\* Faulty variant: the 16-bit index is off by one.
UInt16OffByOne(x) == (x + 1) % 65536

\* std::uint16_t: what GetIndices16 keeps of a 32-bit index.
UInt16(x) == x % 65536

\* ------------------------------------------------------------ geometry

\* The meshes of BuildShapeGeometry, in the order in which it concatenates them.
MeshOrder ==
    << "box", "grid", "sphere", "cylinder", "wedge", "pyramid", "cone",
       "diamond", "spike", "squarewindow", "caltrop" >>

MeshNames == Range(MeshOrder)

\* GeometryGenerator::MeshData with nv vertices and nt triangles: vertex k of
\* mesh i is told apart by its position; the triangle indices run down from
\* the last vertex, round the vertices.
MeshData(i, nv, nt) ==
    [ Vertices  |-> [k \in 1..nv |->
                       [Position |-> <<i, k>>, Normal |-> <<k, i>>,
                        TangentU |-> i, TexC |-> k % 2]],
      Indices32 |-> [j \in 1..(3 * nt) |-> (3 * nt * nv - j) % nv] ]

\* The place of mesh n in the order of baking.
MeshIndex(n) == CHOOSE k \in DOMAIN MeshOrder : MeshOrder[k] = n

\* The sizes the generator gives a mesh that the baking specification leaves fixed.
DefaultSizes ==
    [ n \in MeshNames |->
        [ nv |-> 1 + (MeshIndex(n) % MaxVerts),
          nt |-> 1 + ((MeshIndex(n) + 1) % MaxTris) ] ]

\* geoGen.CreateBox(...), CreateGrid(...), ...: the meshes of the given sizes.
Generate(sizes) ==
    [ n \in MeshNames |-> MeshData(MeshIndex(n), sizes[n].nv, sizes[n].nt) ]

DefaultMeshes == Generate(DefaultSizes)

\* The generated mesh n.
Mesh(n) == MeshData(MeshIndex(n), meshes[n].nv, meshes[n].nt)

\* gridVertexOffset = box.Vertices.size(); sphereVertexOffset = gridVertexOffset
\* + grid.Vertices.size(); ... : the offset of the i-th mesh.
RECURSIVE VertexOffset(_, _)
VertexOffset(ms, i) ==
    IF i = 1 THEN 0
    ELSE UInt(VertexOffset(ms, i - 1) + Len(ms[MeshOrder[i - 1]].Vertices))

\* Faulty variant: the index offsets are summed from the vertex counts.
RECURSIVE IndexOffsetFromVertices(_, _)
IndexOffsetFromVertices(ms, i) ==
    IF i = 1 THEN 0
    ELSE UInt(IndexOffsetFromVertices(ms, i - 1) + Len(ms[MeshOrder[i - 1]].Vertices))

\* gridIndexOffset = box.Indices32.size(); ... : the offset of the i-th mesh.
RECURSIVE IndexOffset(_, _)
IndexOffset(ms, i) ==
    IF i = 1 THEN 0
    ELSE UInt(IndexOffset(ms, i - 1) + Len(ms[MeshOrder[i - 1]].Indices32))

\* SubmeshGeometry xSubmesh; IndexCount, StartIndexLocation, BaseVertexLocation.
Submesh(ms, i) ==
    [ IndexCount         |-> UInt(Len(ms[MeshOrder[i]].Indices32)),
      StartIndexLocation |-> IndexOffset(ms, i),
      BaseVertexLocation |-> VertexOffset(ms, i) ]

\* vertices[k].Pos = m.Vertices[i].Position; .Normal; .TexC, mesh after mesh.
RECURSIVE PackVertices(_, _)
PackVertices(ms, i) ==
    IF i = 0 THEN <<>>
    ELSE PackVertices(ms, i - 1) \o
         [k \in DOMAIN ms[MeshOrder[i]].Vertices |->
            LET v == ms[MeshOrder[i]].Vertices[k]
            IN  [Pos |-> v.Position, Normal |-> v.Normal, TexC |-> v.TexC]]

\* MeshData::GetIndices16: each 32-bit index cut to 16 bits.
GetIndices16(m) == [j \in DOMAIN m.Indices32 |-> UInt16(m.Indices32[j])]

\* Faulty variant: each index is re-based by the mesh's vertex offset.
RECURSIVE PackIndicesRebased(_, _)
PackIndicesRebased(ms, i) ==
    IF i = 0 THEN <<>>
    ELSE PackIndicesRebased(ms, i - 1) \o
         [j \in DOMAIN ms[MeshOrder[i]].Indices32 |->
            UInt16(ms[MeshOrder[i]].Indices32[j] + VertexOffset(ms, i))]

\* indices.insert(indices.end(), begin(m.GetIndices16()), end(...)), mesh after mesh.
RECURSIVE PackIndices(_, _)
PackIndices(ms, i) ==
    IF i = 0 THEN <<>>
    ELSE PackIndices(ms, i - 1) \o GetIndices16(ms[MeshOrder[i]])

\* The MeshGeometry "shapeGeo" that BuildShapeGeometry leaves in mGeometries.
ShapeGeo(ms) ==
    [ Name     |-> "shapeGeo",
      Vertices |-> PackVertices(ms, Len(MeshOrder)),
      Indices  |-> PackIndices(ms, Len(MeshOrder)),
      DrawArgs |-> [n \in MeshNames |->
                      Submesh(ms, CHOOSE k \in DOMAIN MeshOrder : MeshOrder[k] = n)] ]

\* The MeshGeometry "treeSpritesGeo": 12 point sprites, indices 0..11.
TreeSpritesGeo ==
    [ Name     |-> "treeSpritesGeo",
      Vertices |-> [k \in 1..12 |-> [Pos |-> <<0, k>>, Size |-> <<100, 100>>]],
      Indices  |-> [k \in 1..12 |-> k - 1],
      DrawArgs |-> [n \in {"points"} |->
                      [IndexCount |-> 12, StartIndexLocation |-> 0,
                       BaseVertexLocation |-> 0]] ]

\* m[k] = v in a map held as a function (insert or overwrite).
MapPut(m, k, v) == [x \in (DOMAIN m) \cup {k} |-> IF x = k THEN v ELSE m[x]]

EmptyMap == [x \in {} |-> 0]

\* ------------------------------------------------------------ materials

\* Faulty variant: the mark lasts for one slot only.
MarkDirtyOnce == gNumFrameResources - 2

\* Faulty variant: an edit marks an entity for one frame resource too few.
MarkDirtyShort == gNumFrameResources - 1

\* "when we modify object data we should set NumFramesDirty = gNumFrameResources":
\* the value an edit gives a dirty count, and the one an entity is built with.
MarkDirty == gNumFrameResources

\* struct Material as BuildMaterials fills it; NumFramesDirty and MatTransform
\* keep their defaults (gNumFrameResources, the identity).
NewMaterial(name, cbIndex, srvIndex, roughness) ==
    [ Name |-> name, MatCBIndex |-> cbIndex, DiffuseSrvHeapIndex |-> srvIndex,
      Roughness |-> roughness, NumFramesDirty |-> MarkDirty,
      MatTransform |-> Identity4x4(TexOne) ]

\* The materials of BuildMaterials (roughness in thousandths).
MaterialList ==
    << NewMaterial("grass", 0, 0, 125), NewMaterial("water", 1, 1, 0),
       NewMaterial("wirefence", 2, 2, 250), NewMaterial("wood", 3, 3, 250),
       NewMaterial("ice", 4, 4, 250), NewMaterial("metal", 5, 5, 250),
       NewMaterial("treeSprites", 6, 6, 125) >>

\* mMaterials["grass"] = std::move(grass); ...
BuildMaterialsResult ==
    [ n \in { MaterialList[i].Name : i \in DOMAIN MaterialList } |->
        LET i == CHOOSE k \in DOMAIN MaterialList : MaterialList[k].Name = n
        IN  MaterialList[i] ]

\* ------------------------------------------------------------ render items

\* BoundingBox's default: centre at the origin, extents of one unit.
DefaultBox == [Center |-> <<0, 0, 0>>, Extents |-> <<10, 10, 10>>]

\* The walls of the maze: "if (name == "box" && material == "wirefence")".
IsWall(name, material) == name = "box" /\ material = "wirefence"

\* The calls of MakeThing that the model keeps, in the order of BuildRenderItems:
\* name, material, layer, objectScale, objectPos, textureScale (tenths).
SceneCalls ==
    << [name |-> "box", material |-> "grass", type |-> Opaque,
        scale |-> <<3000, 100, 1000>>, pos |-> <<0, -50, 200>>, tex |-> <<1500, 500>>],
       [name |-> "grid", material |-> "water", type |-> Transparent,
        scale |-> <<100, 10, 100>>, pos |-> <<0, -2, -450>>, tex |-> <<50, 50>>],
       [name |-> "box", material |-> "wirefence", type |-> Opaque,
        scale |-> <<500, 150, 30>>, pos |-> <<0, 75, 250>>, tex |-> <<50, 50>>],
       [name |-> "cylinder", material |-> "wirefence", type |-> Opaque,
        scale |-> <<50, 60, 50>>, pos |-> <<-250, 85, 250>>, tex |-> <<50, 50>>],
       [name |-> "squarewindow", material |-> "metal", type |-> Opaque,
        scale |-> <<100, 100, 100>>, pos |-> <<0, 75, -250>>, tex |-> <<50, 50>>],
       [name |-> "diamond", material |-> "ice", type |-> Opaque,
        scale |-> <<10, 25, 10>>, pos |-> <<0, 40, 100>>, tex |-> <<50, 50>>],
       [name |-> "spike", material |-> "wood", type |-> Opaque,
        scale |-> <<6, 80, 6>>, pos |-> <<60, 0, -280>>, tex |-> <<50, 50>>] >>

\* What the scene build has made so far: the tables it looks names up in (a
\* lookup with operator[] may insert), the items, the layers, the next index.
\* mRitemLayer[l] holds positions in mAllRitems (the code holds pointers).
EmptyScene(mats, geos) ==
    [ mats |-> mats, geos |-> geos, all |-> <<>>,
      layers |-> [l \in 0 .. (RenderLayerCount - 1) |-> <<>>],
      objectIndexnumber |-> 0 ]

\* The layer list MakeThing pushes an item of layer `type` to.
LayerOf(type) == type

\* std::unordered_map::operator[]: the entry, a default-constructed one when
\* the key is missing.
DefaultSubmesh == [IndexCount |-> 0, StartIndexLocation |-> 0, BaseVertexLocation |-> 0]

DrawArgsAt(geo, name) ==
    IF name \in DOMAIN geo.DrawArgs THEN geo.DrawArgs[name] ELSE DefaultSubmesh

\* ShapesApp::MakeThing.
MakeThing(sc, c) ==
    LET mats == IF c.material \in DOMAIN sc.mats THEN sc.mats
                ELSE MapPut(sc.mats, c.material, "nullptr")
        geo  == sc.geos["shapeGeo"]
        geo2 == IF c.name \in DOMAIN geo.DrawArgs THEN geo
                ELSE [geo EXCEPT !.DrawArgs = MapPut(geo.DrawArgs, c.name, DefaultSubmesh)]
        arg  == DrawArgsAt(geo, c.name)
        item == [ name |-> c.name,
                  box  |-> IF IsWall(c.name, c.material)
                           THEN [Center |-> c.pos,
                                 Extents |-> <<c.scale[1] \div 2, c.scale[2] \div 2,
                                               c.scale[3] \div 2>>]
                           ELSE DefaultBox,
                  World |-> ScaleTranslate(c.scale, c.pos, 10),
                  TexTransform |-> ScaleTranslate(<<c.tex[1], c.tex[2], 10>>, <<0, 0, 0>>, 10),
                  NumFramesDirty |-> MarkDirty,
                  ObjCBIndex |-> sc.objectIndexnumber,
                  Mat |-> IF c.material \in DOMAIN sc.mats THEN c.material ELSE "nullptr",
                  Geo |-> "shapeGeo",
                  PrimitiveType |-> "TRIANGLELIST",
                  IndexCount |-> arg.IndexCount,
                  StartIndexLocation |-> arg.StartIndexLocation,
                  BaseVertexLocation |-> arg.BaseVertexLocation ]
    IN  [ mats |-> mats,
          geos |-> [sc.geos EXCEPT !["shapeGeo"] = geo2],
          all  |-> Append(sc.all, item),
          layers |-> [sc.layers EXCEPT ![LayerOf(c.type)] = Append(@, Len(sc.all) + 1)],
          objectIndexnumber |-> UInt(sc.objectIndexnumber + 1) ]

\* The tree sprites item that BuildRenderItems makes by hand, first.
TreeSpritesItem(sc) ==
    LET arg == sc.geos["treeSpritesGeo"].DrawArgs["points"]
        item == [ name |-> "", box |-> DefaultBox,
                  World |-> Identity4x4(10), TexTransform |-> Identity4x4(10),
                  NumFramesDirty |-> MarkDirty,
                  ObjCBIndex |-> sc.objectIndexnumber,
                  Mat |-> "treeSprites", Geo |-> "treeSpritesGeo",
                  PrimitiveType |-> "POINTLIST",
                  IndexCount |-> arg.IndexCount,
                  StartIndexLocation |-> arg.StartIndexLocation,
                  BaseVertexLocation |-> arg.BaseVertexLocation ]
    IN  [ sc EXCEPT !.all = Append(sc.all, item),
                    !.layers[AlphaTestedTreeSprites] = Append(@, Len(sc.all) + 1),
                    !.objectIndexnumber = UInt(sc.objectIndexnumber + 1) ]

RECURSIVE MakeThings(_, _)
MakeThings(sc, calls) ==
    IF calls = <<>> THEN sc
    ELSE MakeThings(MakeThing(sc, Head(calls)), Tail(calls))

\* ShapesApp::BuildRenderItems: objectIndexnumber = 0, the tree sprites item,
\* then the calls of MakeThing.
BuildRenderItemsResult(mats, geos) ==
    MakeThings(TreeSpritesItem(EmptyScene(mats, geos)), SceneCalls)

\* ------------------------------------------------------------ frame resources

\* An upload buffer element nothing was copied to yet.
NoData == [data |-> [none |-> TRUE], ver |-> 0]

\* FrameResource(device, 1, objectCount, materialCount): Fence = 0.
NewFrameResource(objectCount, materialCount) ==
    [ Fence      |-> 0,
      ObjectCB   |-> [i \in 0 .. (objectCount - 1) |-> NoData],
      MaterialCB |-> [i \in 0 .. (materialCount - 1) |-> NoData],
      PassCB     |-> NoData ]

\* ShapesApp::BuildFrameResources.
BuildFrameResourcesResult(items, mats) ==
    [ s \in Slots |-> NewFrameResource(Len(items), Cardinality(DOMAIN mats)) ]

\* ------------------------------------------------------------ Update

cur == mCurrFrameResourceIndex

\* Faulty variant: the ring skips a slot.
NextFrameResourceIndexSkip(i) == (i + 2) % gNumFrameResources

\* mCurrFrameResourceIndex = (mCurrFrameResourceIndex + 1) % gNumFrameResources.
NextFrameResourceIndex(i) == (i + 1) % gNumFrameResources

\* Faulty variant: Update never waits.
MustWaitNever(fence, done) == FALSE

\* if (mCurrFrameResource->Fence != 0 && mFence->GetCompletedValue() < Fence).
MustWait(fence, done) == fence # 0 /\ done < fence

\* Faulty variant: the wait returns at once.
EventSetAlways(fence, done) == TRUE

\* Faulty variant: the wait gives up one fence value early.
EventSetEarly(fence, done) == done + 1 >= fence

\* SetEventOnCompletion(fence, event): the event is set once the fence has
\* reached the value; WaitForSingleObject(event, INFINITE) returns then.
EventSet(fence, done) == done >= fence

\* Faulty variant: the refresh does not test the count.
IsDirtyAlways(n) == TRUE

\* if (e->NumFramesDirty > 0).
IsDirty(n) == n > 0

\* Faulty variant: the count drops by two.
DecrementTwice(n) == n - 2

\* e->NumFramesDirty--.
Decrement(n) == n - 1

\* UploadBuffer::CopyData(elementIndex, data) into a buffer of the current slot.
CopyData(cb, elementIndex, d) == [cb EXCEPT ![elementIndex] = d]

\* tu += step; if (tu >= 1.0f) tu -= 1.0f.
Scroll(t, step) == IF t + step >= TexOne THEN t + step - TexOne ELSE t + step

\* Faulty variant: the water material is scrolled and not marked dirty.
AnimateMaterialsUnmarked(mats, dt) ==
    LET water == mats["water"]
    IN  [mats EXCEPT !["water"] =
            [water EXCEPT !.MatTransform[4][1] = Scroll(@, dt),
                          !.MatTransform[4][2] = Scroll(@, 2 * dt)]]

\* ShapesApp::AnimateMaterials: scrolls the water material and marks it dirty.
AnimateMaterials(mats, dt) ==
    LET water == mats["water"]
        tu == Scroll(water.MatTransform[4][1], dt)
        tv == Scroll(water.MatTransform[4][2], 2 * dt)
    IN  [mats EXCEPT !["water"] =
            [water EXCEPT !.MatTransform[4][1] = tu,
                          !.MatTransform[4][2] = tv,
                          !.NumFramesDirty = MarkDirty]]

\* ObjectConstants of a render item: both matrices transposed.
ObjectConstantsOf(e) ==
    [World |-> Transpose(e.World), TexTransform |-> Transpose(e.TexTransform)]

\* MaterialConstants of a material.
MaterialConstantsOf(mat) ==
    [Roughness |-> mat.Roughness, MatTransform |-> Transpose(mat.MatTransform)]

\* ShapesApp::UpdateObjectCBs over the first n items, in order: the items and
\* the current slot's object buffer after it.
RECURSIVE UpdateObjectCBs(_, _, _, _)
UpdateObjectCBs(items, cb, ver, n) ==
    IF n = 0 THEN [items |-> items, cb |-> cb]
    ELSE LET r == UpdateObjectCBs(items, cb, ver, n - 1)
             e == r.items[n]
         IN  IF IsDirty(e.NumFramesDirty)
             THEN [ items |-> [r.items EXCEPT ![n].NumFramesDirty = Decrement(@)],
                    cb |-> CopyData(r.cb, e.ObjCBIndex,
                                    [data |-> ObjectConstantsOf(e), ver |-> ver[n]]) ]
             ELSE r

\* ShapesApp::UpdateMaterialCBs over the materials named in `todo` (the order of
\* an unordered_map; the materials' MatCBIndex are distinct, so it does not
\* matter): the materials and the current slot's material buffer after it.
RECURSIVE UpdateMaterialCBs(_, _, _, _)
UpdateMaterialCBs(mats, cb, ver, todo) ==
    IF todo = {} THEN [mats |-> mats, cb |-> cb]
    ELSE LET n == CHOOSE x \in todo : TRUE
             r == UpdateMaterialCBs(mats, cb, ver, todo \ {n})
             mat == r.mats[n]
         IN  IF IsDirty(mat.NumFramesDirty)
             THEN [ mats |-> [r.mats EXCEPT ![n].NumFramesDirty = Decrement(@)],
                    cb |-> CopyData(r.cb, mat.MatCBIndex,
                                    [data |-> MaterialConstantsOf(mat), ver |-> ver[n]]) ]
             ELSE r

\* ShapesApp::UpdateMainPassCB: the pass constants of this tick.
\* EyePosW and the position of the light the camera carries (Lights[7]) are
\* the camera position at the time of the call.
MainPassCB(cam, dt, tick) ==
    [data |-> [DeltaTime |-> dt, NearZ |-> 10, FarZ |-> 10000,
               EyePosW |-> cam.mPosition, CameraLight |-> cam.mPosition],
     ver |-> tick]

\* ------------------------------------------------------------ Camera and collision

\* The keys OnKeyboardInput reads with GetAsyncKeyState.
Keys == {"W", "S", "A", "D", "P", "O"}

\* The constant height OnKeyboardInput sets the camera to, in tenths: 3.0f.
CameraHeight == 30

\* Camera::SetPosition.
SetPosition(cam, p) == [cam EXCEPT !.mPosition = p]

\* p + d * v.
MoveAlong(p, d, v) == <<p[1] + d * v[1], p[2] + d * v[2], p[3] + d * v[3]>>

\* Camera::Walk, Camera::Strafe, Camera::Pedestal: along the look, right and up
\* vectors of the camera.
Walk(cam, d) == SetPosition(cam, MoveAlong(cam.mPosition, d, cam.mLook))
Strafe(cam, d) == SetPosition(cam, MoveAlong(cam.mPosition, d, cam.mRight))
Pedestal(cam, d) == SetPosition(cam, MoveAlong(cam.mPosition, d, cam.mUp))

\* Faulty variant: the height is left as the keys made it.
KeepHeight(p) == p

\* (x, 3.0f, z) of "mCamera.SetPosition(mCamera.GetPosition3f().x, 3.0f,
\* mCamera.GetPosition3f().z)".
PinHeight(p) == <<p[1], CameraHeight, p[3]>>

\* "if (GetAsyncKeyState(k) & 0x8000)".
IfHeld(keys, k, moved, cam) == IF k \in keys THEN moved ELSE cam

\* ShapesApp::OnKeyboardInput, the camera it leaves: the six keys in the order
\* of the code, each moving by 10.0f * dt, then the height.
OnKeyboardInput(cam, keys, dt) ==
    LET d  == 10 * dt
        c1 == IfHeld(keys, "W", Walk(cam, d), cam)
        c2 == IfHeld(keys, "S", Walk(c1, -d), c1)
        c3 == IfHeld(keys, "A", Strafe(c2, -d), c2)
        c4 == IfHeld(keys, "D", Strafe(c3, d), c3)
        c5 == IfHeld(keys, "P", Pedestal(c4, d), c4)
        c6 == IfHeld(keys, "O", Pedestal(c5, -d), c5)
    IN  SetPosition(c6, PinHeight(c6.mPosition))

Abs(x) == IF x < 0 THEN -x ELSE x

\* Sign: "(value < 0.0f) ? -1.0f : 1.0f".
Sign(value) == IF value < 0 THEN -1 ELSE 1

\* One pass of the loop of Collision, on one render item.
Resolve(cam, pl, item) ==
    IF item.name # "box" THEN cam
    ELSE LET distX == item.box.Center[1] - pl.Center[1]
             distZ == item.box.Center[3] - pl.Center[3]
             sumX  == pl.Extents[1] + item.box.Extents[1]
             sumZ  == pl.Extents[3] + item.box.Extents[3]
             overX == sumX - Abs(distX)
             overZ == sumZ - Abs(distZ)
             min_trans == IF overX < overZ THEN <<Sign(distX) * overX, 0, 0>>
                          ELSE <<0, 0, Sign(distZ) * overZ>>
         IN  IF overX < 0 \/ overZ < 0 THEN cam
             ELSE SetPosition(cam, MoveAlong(cam.mPosition, -1, min_trans))

\* Faulty variant: the player box follows the camera within the pass.
RECURSIVE CollisionFromTracking(_, _, _, _)
CollisionFromTracking(cam, pl, items, i) ==
    IF i > Len(items) THEN cam
    ELSE LET c == Resolve(cam, pl, items[i])
         IN  CollisionFromTracking(c, [pl EXCEPT !.Center = c.mPosition], items, i + 1)

RECURSIVE CollisionFrom(_, _, _, _)
CollisionFrom(cam, pl, items, i) ==
    IF i > Len(items) THEN cam
    ELSE CollisionFrom(Resolve(cam, pl, items[i]), pl, items, i + 1)

\* Faulty variant: the pass over the items is made twice.
CollisionTwice(cam, pl, items) ==
    CollisionFrom(CollisionFrom(cam, pl, items, 1), pl, items, 1)

\* ShapesApp::Collision, the camera it leaves: every item of mAllRitems in turn.
Collision(cam, pl, items) == CollisionFrom(cam, pl, items, 1)

\* Update, up to the fence wait: the ring advances, and the CPU blocks when the
\* slot's fence has not been reached.
UpdateEnterKeys(dt, keys) ==
    /\ mCamera' = OnKeyboardInput(mCamera, keys, dt)
    /\ player' = [player EXCEPT !.Center = mCamera'.mPosition]
    /\ UNCHANGED <<objectIndexnumber, exception, diagnostics>>
    /\ pc = "update"
    /\ numUpdates < MaxTicks
    /\ mCurrFrameResourceIndex' = NextFrameResourceIndex(mCurrFrameResourceIndex)
    /\ pc' = IF MustWait(mFrameResources[mCurrFrameResourceIndex'].Fence, completed)
             THEN "wait" ELSE "body"
    /\ deltaTime' = dt
    /\ numUpdates' = numUpdates + 1
    /\ UNCHANGED <<meshes, mGeometries, initPc, mMaterials, mAllRitems, mRitemLayer,
                   mFrameResources, mCurrentFence, mCurrBackBuffer, completed,
                   cmdQueue, cmdList, stamped, itemVer, matVer, itemSince, matSince>>

\* The start of Update with no key held.
UpdateEnter(dt) == UpdateEnterKeys(dt, {})

\* WaitForSingleObject returns.
FenceWait ==
    /\ UNCHANGED appVars
    /\ pc = "wait"
    /\ EventSet(mFrameResources[cur].Fence, completed)
    /\ pc' = "body"
    /\ UNCHANGED <<meshes, mGeometries, initPc, mMaterials, mAllRitems, mRitemLayer,
                   mFrameResources, mCurrFrameResourceIndex, mCurrentFence,
                   mCurrBackBuffer, completed, cmdQueue, deltaTime, cmdList,
                   numUpdates, stamped, itemVer, matVer, itemSince, matSince>>

Bump(n) == IF n < gNumFrameResources THEN n + 1 ELSE n

\* Faulty variant: UpdateMainPassCB reads the camera Collision has corrected.
PassCameraCorrected(before, after) == after

\* Update calls UpdateMainPassCB and then Collision: of the camera before the
\* correction and the camera after it, the pass constants take the first.
PassCamera(before, after) == before

\* The rest of Update: AnimateMaterials, UpdateObjectCBs, UpdateMaterialCBs,
\* UpdateMainPassCB, Collision.
UpdateBody ==
    /\ mCamera' = Collision(mCamera, player, mAllRitems)
    /\ UNCHANGED <<objectIndexnumber, player, exception, diagnostics>>
    /\ pc = "body"
    /\ LET animated == AnimateMaterials(mMaterials, deltaTime)
           ver1 == [matVer EXCEPT !["water"] = @ + 1]
           obj == UpdateObjectCBs(mAllRitems, mFrameResources[cur].ObjectCB,
                                  itemVer, Len(mAllRitems))
           mat == UpdateMaterialCBs(animated, mFrameResources[cur].MaterialCB,
                                    ver1, DOMAIN animated)
       IN  /\ mAllRitems' = obj.items
           /\ mMaterials' = mat.mats
           /\ mFrameResources' =
                [mFrameResources EXCEPT ![cur].ObjectCB = obj.cb,
                                        ![cur].MaterialCB = mat.cb,
                                        ![cur].PassCB = MainPassCB(PassCamera(mCamera, mCamera'),
                                                                 deltaTime, numUpdates)]
           /\ matVer' = ver1
           /\ itemSince' = [i \in DOMAIN itemSince |-> Bump(itemSince[i])]
           /\ matSince' = [n \in DOMAIN matSince |->
                             IF n = "water" THEN 1 ELSE Bump(matSince[n])]
    /\ pc' = "draw"
    /\ UNCHANGED <<meshes, mGeometries, initPc, mRitemLayer, mCurrFrameResourceIndex,
                   mCurrentFence, mCurrBackBuffer, completed, cmdQueue, deltaTime,
                   cmdList, numUpdates, stamped, itemVer>>

\* ------------------------------------------------------------ Draw

\* Faulty variant: Draw forgets the transparent layer.
DrawPassesNoTransparent ==
    << [pso |-> "opaque", layer |-> Opaque, barrierAfter |-> FALSE],
       [pso |-> "tree", layer |-> AlphaTestedTreeSprites, barrierAfter |-> TRUE] >>

\* Faulty variant: Draw submits the transparent layer first.
DrawPassesBlendedFirst ==
    << [pso |-> "transparent", layer |-> Transparent, barrierAfter |-> FALSE],
       [pso |-> "opaque", layer |-> Opaque, barrierAfter |-> FALSE],
       [pso |-> "tree", layer |-> AlphaTestedTreeSprites, barrierAfter |-> TRUE] >>

\* The layers Draw submits, in its order: the pipeline state set before the
\* layer (the command list is reset with "opaque"), and whether a transition of
\* the back buffer to PRESENT is recorded after the layer.
DrawPasses ==
    << [pso |-> "opaque", layer |-> Opaque, barrierAfter |-> FALSE],
       [pso |-> "tree", layer |-> AlphaTestedTreeSprites, barrierAfter |-> TRUE],
       [pso |-> "transparent", layer |-> Transparent, barrierAfter |-> TRUE] >>

Barrier(before, after) ==
    [op |-> "ResourceBarrier", buffer |-> mCurrBackBuffer, before |-> before, after |-> after]

\* ShapesApp::DrawRenderItems: one DrawIndexedInstanced per entry of the layer
\* list, in the list's order, with the item's constant buffer elements of the
\* current slot bound.
DrawRenderItems(ritems) ==
    [ i \in DOMAIN ritems |->
        LET ri == mAllRitems[ritems[i]]
        IN  [ op |-> "DrawIndexedInstanced", ritem |-> ritems[i],
              slot |-> cur,
              tex |-> mMaterials[ri.Mat].DiffuseSrvHeapIndex,
              objCB |-> ri.ObjCBIndex,
              matCB |-> mMaterials[ri.Mat].MatCBIndex,
              IndexCount |-> ri.IndexCount,
              StartIndexLocation |-> ri.StartIndexLocation,
              BaseVertexLocation |-> ri.BaseVertexLocation ] ]

RECURSIVE RecordPasses(_)
RecordPasses(passes) ==
    IF passes = <<>> THEN <<>>
    ELSE LET p == Head(passes)
         IN  << [op |-> "SetPipelineState", pso |-> p.pso] >>
             \o DrawRenderItems(mRitemLayer[p.layer])
             \o (IF p.barrierAfter THEN << Barrier("RENDER_TARGET", "PRESENT") >> ELSE <<>>)
             \o RecordPasses(Tail(passes))

\* What Draw records between mCommandList->Reset and Close.
RecordFrame ==
    << Barrier("PRESENT", "RENDER_TARGET"),
       [op |-> "SetPassCB", slot |-> cur] >>
    \o RecordPasses(DrawPasses)

\* Faulty variant: the fence value is not advanced.
NextFenceSame(f) == f

\* mCurrFrameResource->Fence = ++mCurrentFence.
NextFence(f) == f + 1

\* Faulty variant: Draw stamps the slot the next Update will take.
StampedSlotNext == NextFrameResourceIndex(cur)

\* The slot that Draw stamps: mCurrFrameResource.
StampedSlot == cur

\* Faulty variant: Draw stamps the slot and does not tell the queue.
SignalForgotten(value) == <<>>

\* mCommandQueue->Signal(mFence.Get(), mCurrentFence): what the queue is given.
Signal(value) == << [op |-> "Signal", value |-> value] >>

\* ShapesApp::Draw: resets the current slot's allocator, records the frame,
\* submits it, presents, stamps the slot and signals the fence.
Draw ==
    /\ UNCHANGED appVars
    /\ pc = "draw"
    /\ cmdList' = RecordFrame
    /\ mCurrBackBuffer' = (mCurrBackBuffer + 1) % SwapChainBufferCount
    /\ mCurrentFence' = NextFence(mCurrentFence)
    /\ mFrameResources' = [mFrameResources EXCEPT ![StampedSlot].Fence = mCurrentFence']
    /\ cmdQueue' = cmdQueue \o << [op |-> "ExecuteCommandLists", slot |-> cur] >>
                            \o Signal(mCurrentFence')
    /\ stamped' = stamped \cup {mCurrentFence'}
    /\ pc' = "update"
    /\ UNCHANGED <<meshes, mGeometries, initPc, mMaterials, mAllRitems, mRitemLayer,
                   mCurrFrameResourceIndex, completed, deltaTime, numUpdates,
                   itemVer, matVer, itemSince, matSince>>

\* ------------------------------------------------------------ the GPU

\* The GPU finishes the command list at the head of the queue.
GpuExecute ==
    /\ UNCHANGED appVars
    /\ cmdQueue # <<>>
    /\ Head(cmdQueue).op = "ExecuteCommandLists"
    /\ cmdQueue' = Tail(cmdQueue)
    /\ UNCHANGED <<meshes, mGeometries, initPc, mMaterials, mAllRitems, mRitemLayer,
                   mFrameResources, mCurrFrameResourceIndex, mCurrentFence,
                   mCurrBackBuffer, completed, pc, deltaTime, cmdList,
                   numUpdates, stamped, itemVer, matVer, itemSince, matSince>>

\* The GPU reaches a Signal: the fence takes its value.
GpuSignal ==
    /\ UNCHANGED appVars
    /\ cmdQueue # <<>>
    /\ Head(cmdQueue).op = "Signal"
    /\ completed' = Head(cmdQueue).value
    /\ cmdQueue' = Tail(cmdQueue)
    /\ UNCHANGED <<meshes, mGeometries, initPc, mMaterials, mAllRitems, mRitemLayer,
                   mFrameResources, mCurrFrameResourceIndex, mCurrentFence,
                   mCurrBackBuffer, pc, deltaTime, cmdList,
                   numUpdates, stamped, itemVer, matVer, itemSince, matSince>>

\* ------------------------------------------------------------ Initialize


\* mCamera after mCamera.SetPosition(0.0f, 3.0f, -150.0f): the position in
\* tenths, and the basis a Camera is constructed with.
InitialCamera ==
    [ mPosition |-> <<0, CameraHeight, -1500>>,
      mRight |-> <<1, 0, 0>>, mUp |-> <<0, 1, 0>>, mLook |-> <<0, 0, 1>> ]

\* player.Center = mCamera.GetPosition3f(); player.Extents = (1.5, 0.6, 1.5).
InitialPlayer == [Center |-> InitialCamera.mPosition, Extents |-> <<15, 6, 15>>]

\* The state before Initialize builds anything, for given generated meshes.
Unbuilt(ms) ==
    /\ objectIndexnumber = 0
    /\ mCamera = InitialCamera
    /\ player = InitialPlayer
    /\ exception = "none"
    /\ diagnostics = 0
    /\ meshes = ms
    /\ mGeometries = EmptyMap
    /\ mMaterials = EmptyMap
    /\ mAllRitems = <<>>
    /\ mRitemLayer = [l \in 0 .. (RenderLayerCount - 1) |-> <<>>]
    /\ mFrameResources = EmptyMap
    /\ mCurrFrameResourceIndex = 0
    /\ mCurrentFence \in 0 .. MaxInitFence
    /\ completed = mCurrentFence
    /\ mCurrBackBuffer = 0
    /\ cmdQueue = <<>>
    /\ pc = "init"
    /\ deltaTime = 0
    /\ cmdList = <<>>
    /\ numUpdates = 0
    /\ stamped = {}
    /\ itemVer = <<>>
    /\ matVer = EmptyMap
    /\ itemSince = <<>>
    /\ matSince = EmptyMap

frameVars ==
    <<mFrameResources, mCurrFrameResourceIndex, mCurrentFence, mCurrBackBuffer,
      completed, cmdQueue, deltaTime, cmdList, numUpdates, stamped>>

BuildShapeGeometry ==
    /\ UNCHANGED appVars
    /\ initPc = "BuildShapeGeometry"
    /\ mGeometries' = MapPut(mGeometries, "shapeGeo", ShapeGeo(Generate(meshes)))
    /\ initPc' = "BuildTreeSpritesGeometry"
    /\ UNCHANGED <<meshes, mMaterials, mAllRitems, mRitemLayer, pc,
                   itemVer, matVer, itemSince, matSince>>
    /\ UNCHANGED frameVars

BuildTreeSpritesGeometry ==
    /\ UNCHANGED appVars
    /\ initPc = "BuildTreeSpritesGeometry"
    /\ mGeometries' = MapPut(mGeometries, "treeSpritesGeo", TreeSpritesGeo)
    /\ initPc' = "BuildMaterials"
    /\ UNCHANGED <<meshes, mMaterials, mAllRitems, mRitemLayer, pc,
                   itemVer, matVer, itemSince, matSince>>
    /\ UNCHANGED frameVars

BuildMaterials ==
    /\ UNCHANGED appVars
    /\ initPc = "BuildMaterials"
    /\ mMaterials' = BuildMaterialsResult
    /\ matVer' = [n \in DOMAIN mMaterials' |-> 1]
    /\ matSince' = [n \in DOMAIN mMaterials' |-> 0]
    /\ initPc' = "BuildRenderItems"
    /\ UNCHANGED <<meshes, mGeometries, mAllRitems, mRitemLayer, pc, itemVer, itemSince>>
    /\ UNCHANGED frameVars

BuildRenderItems ==
    /\ UNCHANGED envVars
    /\ initPc = "BuildRenderItems"
    /\ LET sc == BuildRenderItemsResult(mMaterials, mGeometries)
       IN  /\ mAllRitems' = sc.all
           /\ mRitemLayer' = sc.layers
           /\ mMaterials' = sc.mats
           /\ mGeometries' = sc.geos
           /\ objectIndexnumber' = sc.objectIndexnumber
    /\ itemVer' = [i \in DOMAIN mAllRitems' |-> 1]
    /\ itemSince' = [i \in DOMAIN mAllRitems' |-> 0]
    /\ initPc' = "BuildFrameResources"
    /\ UNCHANGED <<meshes, pc, matVer, matSince>>
    /\ UNCHANGED frameVars

\* BuildFrameResources, and the end of Initialize: the frame loop may start.
BuildFrameResources ==
    /\ UNCHANGED appVars
    /\ initPc = "BuildFrameResources"
    /\ mFrameResources' = BuildFrameResourcesResult(mAllRitems, mMaterials)
    /\ initPc' = "done"
    /\ pc' = "update"
    /\ UNCHANGED <<meshes, mGeometries, mMaterials, mAllRitems, mRitemLayer,
                   mCurrFrameResourceIndex, mCurrentFence, mCurrBackBuffer,
                   completed, cmdQueue, deltaTime, cmdList, numUpdates, stamped,
                   itemVer, matVer, itemSince, matSince>>

\* ------------------------------------------------------------ specifications

\* The frame loop, from the state Initialize leaves for the default meshes.
InitOf(cam, calls) ==
    LET geos == MapPut(MapPut(EmptyMap, "shapeGeo", ShapeGeo(DefaultMeshes)),
                       "treeSpritesGeo", TreeSpritesGeo)
        sc == MakeThings(TreeSpritesItem(EmptyScene(BuildMaterialsResult, geos)), calls)
    IN  /\ meshes = DefaultSizes
        /\ mGeometries = sc.geos
        /\ initPc = "done"
        /\ mMaterials = sc.mats
        /\ mAllRitems = sc.all
        /\ mRitemLayer = sc.layers
        /\ mFrameResources = BuildFrameResourcesResult(sc.all, sc.mats)
        /\ mCurrFrameResourceIndex = 0
        /\ mCurrentFence \in 0 .. MaxInitFence
        /\ completed = mCurrentFence
        /\ mCurrBackBuffer = 0
        /\ cmdQueue = <<>>
        /\ pc = "update"
        /\ deltaTime = 0
        /\ cmdList = <<>>
        /\ numUpdates = 0
        /\ stamped = {}
        /\ itemVer = [i \in DOMAIN sc.all |-> 1]
        /\ matVer = [n \in DOMAIN sc.mats |-> 1]
        /\ itemSince = [i \in DOMAIN sc.all |-> 0]
        /\ matSince = [n \in DOMAIN sc.mats |-> 0]
        /\ objectIndexnumber = sc.objectIndexnumber
        /\ mCamera = cam
        /\ player = [InitialPlayer EXCEPT !.Center = cam.mPosition]
        /\ exception = "none"
        /\ diagnostics = 0

\* The state Initialize leaves with the camera at cam.
InitWith(cam) == InitOf(cam, SceneCalls)

\* The state Initialize leaves.
Init == InitWith(InitialCamera)

Next ==
    \/ \E dt \in 0 .. MaxDt : UpdateEnter(dt)
    \/ FenceWait
    \/ UpdateBody
    \/ Draw
    \/ GpuExecute
    \/ GpuSignal

Spec == Init /\ [][Next]_vars

\* Initialize alone, for meshes of every size within the bounds: the first
\* NumBaked meshes of the mesh order have 1..MaxVerts vertices and 1..MaxTris
\* triangles each.
BakeInputs ==
    { [n \in MeshNames |->
         IF MeshIndex(n) <= NumBaked
         THEN [nv |-> f[MeshIndex(n)][1], nt |-> f[MeshIndex(n)][2]]
         ELSE DefaultSizes[n]]
      : f \in [1 .. NumBaked -> (1 .. MaxVerts) \X (1 .. MaxTris)] }

InitBake ==
    /\ initPc = "BuildShapeGeometry"
    /\ \E ms \in BakeInputs : Unbuilt(ms)

NextBake ==
    \/ BuildShapeGeometry
    \/ BuildTreeSpritesGeometry
    \/ BuildMaterials
    \/ BuildRenderItems
    \/ BuildFrameResources

SpecBake == InitBake /\ [][NextBake]_vars

\* ------------------------------------------------------------ claims

Fence(s) == mFrameResources[s].Fence

\* C1: whenever Update is about to write constants into the current slot
\* (after its fence wait) or Draw is about to reset that slot's allocator and
\* record into it, the GPU's completed fence value is at least the value last
\* stamped on the slot, or the slot was never stamped (0).
C1_SlotFreeWhenWritten ==
    pc \in {"body", "draw"} => (Fence(cur) = 0 \/ completed >= Fence(cur))

\* A slot used before is written again, the GPU having just reached its stamp
\* while later frames are still queued.
C1_Witness ==
    /\ pc = "body"
    /\ Fence(cur) # 0
    /\ completed = Fence(cur)
    /\ cmdQueue # <<>>

\* C3: the frames submitted by Draw whose fence value the GPU has not reached
\* are never more than gNumFrameResources.
InFlight == { v \in stamped : v > completed }

C3_InFlightBounded == Cardinality(InFlight) <= gNumFrameResources

\* The ring is full, and Update is blocked in the fence wait.
C3_Witness == Cardinality(InFlight) = gNumFrameResources /\ pc = "wait"

\* C4: after K >= 1 calls of Update the current slot index is K mod N, and it
\* lies in 0..N-1.
C4_RoundRobin ==
    numUpdates >= 1 =>
        /\ mCurrFrameResourceIndex = numUpdates % gNumFrameResources
        /\ mCurrFrameResourceIndex \in 0 .. (gNumFrameResources - 1)

\* The index has wrapped round the ring.
C4_Witness == numUpdates = gNumFrameResources + 1 /\ mCurrFrameResourceIndex = 1

\* C5: a Draw stamps the current slot with a fence value greater than every
\* value stamped before, appends the frame's commands and then a Signal of that
\* same value to the queue, and changes no other slot's stamp.
C5_DrawStampsFresh ==
    [][ (pc = "draw" /\ pc' = "update") =>
          LET v == mFrameResources'[cur].Fence
              n == Len(cmdQueue)
          IN  /\ cur = numUpdates % gNumFrameResources
              /\ v = mCurrentFence'
              /\ \A w \in stamped : w < v
              /\ \A s \in Slots : Fence(s) < v
              /\ Len(cmdQueue') = n + 2
              /\ SubSeq(cmdQueue', 1, n) = cmdQueue
              /\ cmdQueue'[n + 1] = [op |-> "ExecuteCommandLists", slot |-> cur]
              /\ cmdQueue'[n + 2] = [op |-> "Signal", value |-> v]
              /\ \A s \in Slots \ {cur} : mFrameResources'[s].Fence = Fence(s)
      ]_vars

\* A Draw has stamped a slot that carried an older stamp.
C5_Witness ==
    /\ pc = "update"
    /\ numUpdates > gNumFrameResources
    /\ Fence(cur) = mCurrentFence
    /\ Cardinality(stamped) > gNumFrameResources

\* The copy of render item i / of material n that slot s holds.
ObjectCopy(s, i) == mFrameResources[s].ObjectCB[mAllRitems[i].ObjCBIndex]
MaterialCopy(s, n) == mFrameResources[s].MaterialCB[mMaterials[n].MatCBIndex]

\* What a refresh of the entity would copy now.
ObjectFresh(i) == [data |-> ObjectConstantsOf(mAllRitems[i]), ver |-> itemVer[i]]
MaterialFresh(n) == [data |-> MaterialConstantsOf(mMaterials[n]), ver |-> matVer[n]]

\* The copy is the fresh one: of the same mark, with the same constants.
SameCopy(copy, fresh) == copy.ver = fresh.ver /\ copy = fresh

\* C2: once N Updates have run since an entity was last marked dirty, every
\* slot holds its updated constants and its dirty count is 0; while fewer than
\* N have run, at least one slot holds a copy older than the mark.
C2_DirtyPropagation ==
    /\ \A i \in DOMAIN mAllRitems :
         /\ itemSince[i] = gNumFrameResources =>
              /\ \A s \in Slots : SameCopy(ObjectCopy(s, i), ObjectFresh(i))
              /\ mAllRitems[i].NumFramesDirty = 0
         /\ itemSince[i] < gNumFrameResources =>
              \E s \in Slots : ObjectCopy(s, i).ver # itemVer[i]
    /\ \A n \in DOMAIN mMaterials :
         /\ matSince[n] = gNumFrameResources =>
              /\ \A s \in Slots : SameCopy(MaterialCopy(s, n), MaterialFresh(n))
              /\ mMaterials[n].NumFramesDirty = 0
         /\ matSince[n] < gNumFrameResources =>
              \E s \in Slots : MaterialCopy(s, n).ver # matVer[n]

\* A full rotation has passed since the items and the static materials were
\* marked, and the water material was marked again in the last Update.
C2_Witness ==
    /\ itemSince[1] = gNumFrameResources
    /\ matSince["grass"] = gNumFrameResources
    /\ matSince["water"] = 1
    /\ mAllRitems[1].NumFramesDirty = 0

\* The effect of one Update on an entity whose dirty count is `count`: a dirty
\* entity is copied into the current slot and its count drops by one; a clean
\* one keeps its copy and its count.
RefreshedObject(i, count) ==
    IF count > 0
    THEN /\ ObjectCopy(cur, i)' = ObjectFresh(i)'
         /\ mAllRitems'[i].NumFramesDirty = count - 1
    ELSE /\ ObjectCopy(cur, i)' = ObjectCopy(cur, i)
         /\ mAllRitems'[i].NumFramesDirty = count

RefreshedMaterial(n, count) ==
    IF count > 0
    THEN /\ MaterialCopy(cur, n)' = MaterialFresh(n)'
         /\ mMaterials'[n].NumFramesDirty = count - 1
    ELSE /\ MaterialCopy(cur, n)' = MaterialCopy(cur, n)
         /\ mMaterials'[n].NumFramesDirty = count

OtherSlotsKept ==
    \A s \in Slots \ {cur} :
        /\ mFrameResources'[s].ObjectCB = mFrameResources[s].ObjectCB
        /\ mFrameResources'[s].MaterialCB = mFrameResources[s].MaterialCB
        /\ mFrameResources'[s].PassCB = mFrameResources[s].PassCB

\* C6 as stated: in one Update every item and every material is refreshed
\* according to the dirty count it has when Update is called.
C6_AsStated ==
    [][ (pc = "body" /\ pc' = "draw") =>
          /\ \A i \in DOMAIN mAllRitems :
               RefreshedObject(i, mAllRitems[i].NumFramesDirty)
          /\ \A n \in DOMAIN mMaterials :
               RefreshedMaterial(n, mMaterials[n].NumFramesDirty)
          /\ OtherSlotsKept
      ]_vars

\* C6, amended: in one Update every item and every material is refreshed
\* according to the dirty count it has when UpdateObjectCBs / UpdateMaterialCBs
\* examines it, which for the water material is N, AnimateMaterials having
\* marked it earlier in the same Update; no slot but the current one is written.
CountAtRefresh(n) ==
    IF n = "water" THEN gNumFrameResources ELSE mMaterials[n].NumFramesDirty

C6_RefreshIffDirty ==
    [][ (pc = "body" /\ pc' = "draw") =>
          /\ \A i \in DOMAIN mAllRitems :
               RefreshedObject(i, mAllRitems[i].NumFramesDirty)
          /\ \A n \in DOMAIN mMaterials :
               RefreshedMaterial(n, CountAtRefresh(n))
          /\ OtherSlotsKept
      ]_vars

\* An Update has run in which the items were clean and the water material,
\* dirty on entry, was copied again.
C6_Witness ==
    /\ pc = "draw"
    /\ numUpdates > gNumFrameResources
    /\ mAllRitems[1].NumFramesDirty = 0
    /\ mMaterials["water"].NumFramesDirty = gNumFrameResources - 1
    /\ MaterialCopy(cur, "water") = MaterialFresh("water")

\* C7: the dirty count of every render item and of every material is in 0..N.
C7_DirtyCountInRange ==
    /\ \A i \in DOMAIN mAllRitems :
         mAllRitems[i].NumFramesDirty \in 0 .. gNumFrameResources
    /\ \A n \in DOMAIN mMaterials :
         mMaterials[n].NumFramesDirty \in 0 .. gNumFrameResources

\* Updates have run on entities whose count had reached 0.
C7_Witness ==
    /\ numUpdates > gNumFrameResources + 1
    /\ pc = "draw"
    /\ \A i \in DOMAIN mAllRitems : mAllRitems[i].NumFramesDirty = 0
    /\ mMaterials["wood"].NumFramesDirty = 0

\* The positions in mAllRitems of the items that the command list draws, in
\* the order of its DrawIndexedInstanced calls.
RECURSIVE DrawnItems(_)
DrawnItems(cmds) ==
    IF cmds = <<>> THEN <<>>
    ELSE (IF Head(cmds).op = "DrawIndexedInstanced" THEN <<Head(cmds).ritem>> ELSE <<>>)
         \o DrawnItems(Tail(cmds))

\* The layers whose list holds item i.
LayersOfItem(i) ==
    { l \in DOMAIN mRitemLayer : \E k \in DOMAIN mRitemLayer[l] : mRitemLayer[l][k] = i }

\* C8: the layer lists are pairwise disjoint, without repetition, and together
\* hold every item of mAllRitems; and the command list of a Draw holds exactly
\* one DrawIndexedInstanced for each item, so as many as there are items.
C8_EachItemDrawnOnce ==
    /\ \A i \in DOMAIN mAllRitems : Cardinality(LayersOfItem(i)) = 1
    /\ \A l \in DOMAIN mRitemLayer :
         /\ Range(mRitemLayer[l]) \subseteq DOMAIN mAllRitems
         /\ Cardinality(Range(mRitemLayer[l])) = Len(mRitemLayer[l])
    /\ cmdList # <<>> =>
         LET drawn == DrawnItems(cmdList)
         IN  /\ Len(drawn) = Len(mAllRitems)
             /\ \A i \in DOMAIN mAllRitems :
                  Cardinality({ k \in DOMAIN drawn : drawn[k] = i }) = 1

\* A Draw has recorded a frame with items in each of the three layers.
C8_Witness ==
    /\ cmdList # <<>>
    /\ pc = "update"
    /\ \A l \in DOMAIN mRitemLayer : mRitemLayer[l] # <<>>
    /\ Len(DrawnItems(cmdList)) = Len(mAllRitems)

\* The layer of item i (C8: there is exactly one).
LayerOfItem(i) == CHOOSE l \in DOMAIN mRitemLayer : l \in LayersOfItem(i)

\* The place of item i in its layer's list: the order of insertion at scene build.
PlaceInLayer(i) ==
    LET list == mRitemLayer[LayerOfItem(i)]
    IN  CHOOSE k \in DOMAIN list : list[k] = i

LayerSeq(cmds) == [k \in DOMAIN DrawnItems(cmds) |-> LayerOfItem(DrawnItems(cmds)[k])]

\* C9: in a frame's command list every draw of the opaque layer comes before
\* every draw of the transparent layer, and the draws of one layer come in the
\* order in which the items were inserted into the layer; and every frame
\* submits the layers in the same order.
C9_OrderInFrame ==
    LET drawn == DrawnItems(cmdList)
    IN  \A j, k \in DOMAIN drawn :
          /\ (LayerOfItem(drawn[j]) = Opaque /\ LayerOfItem(drawn[k]) = Transparent)
                => j < k
          /\ (j < k /\ LayerOfItem(drawn[j]) = LayerOfItem(drawn[k]))
                => PlaceInLayer(drawn[j]) < PlaceInLayer(drawn[k])

C9_LayerOrder ==
    /\ [] C9_OrderInFrame
    /\ [][ (cmdList # <<>>) => LayerSeq(cmdList') = LayerSeq(cmdList) ]_vars

\* A second frame has been recorded, with several opaque draws and a
\* transparent one.
C9_Witness ==
    /\ cmdList # <<>>
    /\ numUpdates >= 2
    /\ pc = "update"
    /\ Len(mRitemLayer[Opaque]) >= 2
    /\ Len(mRitemLayer[Transparent]) >= 1
    /\ \E k \in DOMAIN cmdList :
         cmdList[k].op = "DrawIndexedInstanced" /\ LayerOfItem(cmdList[k].ritem) = Transparent

\* The sizes of the meshes before the i-th, in the order of baking.
VertexCountsBefore(i) == [k \in 1 .. (i - 1) |-> Len(Mesh(MeshOrder[k]).Vertices)]
IndexCountsBefore(i) == [k \in 1 .. (i - 1) |-> Len(Mesh(MeshOrder[k]).Indices32)]

\* C10: once BuildShapeGeometry has run, the i-th mesh's BaseVertexLocation is
\* the sum of the vertex counts of the meshes before it, its StartIndexLocation
\* the sum of their index counts, and its IndexCount its own index count; so the
\* index ranges and the vertex ranges start at 0, each begins where the one
\* before ends, they increase strictly, and the last ends at the buffer's end.
C10_MeshRanges ==
    "shapeGeo" \in DOMAIN mGeometries =>
        LET geo == mGeometries["shapeGeo"]
            arg(i) == geo.DrawArgs[MeshOrder[i]]
            nv(i) == Len(Mesh(MeshOrder[i]).Vertices)
            last == Len(MeshOrder)
        IN  /\ \A i \in DOMAIN MeshOrder :
                 /\ arg(i).BaseVertexLocation = SumSeq(VertexCountsBefore(i))
                 /\ arg(i).StartIndexLocation = SumSeq(IndexCountsBefore(i))
                 /\ arg(i).IndexCount = Len(Mesh(MeshOrder[i]).Indices32)
            /\ arg(1).StartIndexLocation = 0
            /\ arg(1).BaseVertexLocation = 0
            /\ \A i \in 1 .. (last - 1) :
                 /\ arg(i).StartIndexLocation + arg(i).IndexCount
                      = arg(i + 1).StartIndexLocation
                 /\ arg(i).StartIndexLocation < arg(i + 1).StartIndexLocation
                 /\ arg(i).BaseVertexLocation + nv(i) = arg(i + 1).BaseVertexLocation
                 /\ arg(i).BaseVertexLocation < arg(i + 1).BaseVertexLocation
            /\ arg(last).StartIndexLocation + arg(last).IndexCount = Len(geo.Indices)
            /\ arg(last).BaseVertexLocation + nv(last) = Len(geo.Vertices)

\* Meshes of different sizes have been baked: a box of 2 vertices and 2
\* triangles, a grid of 1 vertex and 1 triangle, and the sphere after them.
C10_Witness ==
    /\ "shapeGeo" \in DOMAIN mGeometries
    /\ Len(Mesh("box").Vertices) = 2
    /\ Len(Mesh("box").Indices32) = 6
    /\ Len(Mesh("grid").Vertices) = 1
    /\ Len(Mesh("grid").Indices32) = 3
    /\ mGeometries["shapeGeo"].DrawArgs["sphere"].BaseVertexLocation = 3
    /\ mGeometries["shapeGeo"].DrawArgs["sphere"].StartIndexLocation = 9

\* The part of the shared vertex buffer that the draw arguments of mesh n
\* address: [BaseVertexLocation, BaseVertexLocation + vertex count).
VertexSlice(n) ==
    LET geo == mGeometries["shapeGeo"]
        base == geo.DrawArgs[n].BaseVertexLocation
    IN  [k \in 1 .. Len(Mesh(n).Vertices) |-> geo.Vertices[base + k]]

\* The part of the shared index buffer that the draw arguments of mesh n
\* address: [StartIndexLocation, StartIndexLocation + IndexCount).
IndexSlice(n) ==
    LET geo == mGeometries["shapeGeo"]
        start == geo.DrawArgs[n].StartIndexLocation
    IN  [j \in 1 .. geo.DrawArgs[n].IndexCount |-> geo.Indices[start + j]]

\* The slices of mesh n give back the mesh: every vertex's position, normal
\* and texture coordinate, and every index.
RoundTrip(n) ==
    /\ Len(VertexSlice(n)) = Len(Mesh(n).Vertices)
    /\ \A k \in DOMAIN Mesh(n).Vertices :
         /\ VertexSlice(n)[k].Pos = Mesh(n).Vertices[k].Position
         /\ VertexSlice(n)[k].Normal = Mesh(n).Vertices[k].Normal
         /\ VertexSlice(n)[k].TexC = Mesh(n).Vertices[k].TexC
    /\ IndexSlice(n) = Mesh(n).Indices32

FirstRevisionCalls == << "grid", "grid", "box", "squarewindow", "squarewindow" >>

\* The materials of BuildMaterials: name and MatCBIndex.
FirstRevisionMaterials ==
    [ n \in {"bricks0", "stone0", "tile0", "skullMat"} |->
        [ Name |-> n,
          MatCBIndex |-> CASE n = "bricks0" -> 0 [] n = "stone0" -> 1
                           [] n = "tile0" -> 2 [] OTHER -> 3,
          NumFramesDirty |-> MarkDirty ] ]

\* objectIndexnumber++.
NextObjectIndex(n) == UInt(n + 1)

\* The render item that MakeThing(name, ...) makes.
FirstRevisionItem(name) ==
    LET arg == DrawArgsAt(mGeometries["shapeGeo"], name)
    IN  [ NumFramesDirty |-> MarkDirty,
          ObjCBIndex |-> objectIndexnumber,
          Mat |-> "stone0", Geo |-> "shapeGeo",
          IndexCount |-> arg.IndexCount,
          StartIndexLocation |-> arg.StartIndexLocation,
          BaseVertexLocation |-> arg.BaseVertexLocation ]

\* The next call of MakeThing in BuildRenderItems.
MakeThingFirstRevision ==
    /\ initPc = "BuildRenderItems"
    /\ Len(mAllRitems) < Len(FirstRevisionCalls)
    /\ mAllRitems' = Append(mAllRitems,
                            FirstRevisionItem(FirstRevisionCalls[Len(mAllRitems) + 1]))
    /\ objectIndexnumber' = NextObjectIndex(objectIndexnumber)
    /\ UNCHANGED <<meshes, mGeometries, initPc, mMaterials, mRitemLayer, pc,
                   itemVer, matVer, itemSince, matSince>>
    /\ UNCHANGED frameVars
    /\ UNCHANGED envVars

\* The end of BuildRenderItems: for (auto& e : mAllRitems) mOpaqueRitems.push_back.
OpaqueRitemsFirstRevision ==
    /\ initPc = "BuildRenderItems"
    /\ Len(mAllRitems) = Len(FirstRevisionCalls)
    /\ mRitemLayer' = [mRitemLayer EXCEPT ![Opaque] = [i \in DOMAIN mAllRitems |-> i]]
    /\ itemVer' = [i \in DOMAIN mAllRitems |-> 1]
    /\ itemSince' = [i \in DOMAIN mAllRitems |-> 0]
    /\ initPc' = "BuildFrameResources"
    /\ UNCHANGED <<meshes, mGeometries, mMaterials, mAllRitems, pc, matVer, matSince>>
    /\ UNCHANGED frameVars
    /\ UNCHANGED appVars

\* Initialize has reached BuildRenderItems; objectIndexnumber was never
\* written, so it holds whatever the memory of theApp held.
InitFirstRevision ==
    /\ objectIndexnumber \in 0 .. MaxGarbage
    /\ meshes = DefaultSizes
    /\ mGeometries = MapPut(EmptyMap, "shapeGeo", ShapeGeo(DefaultMeshes))
    /\ initPc = "BuildRenderItems"
    /\ mMaterials = FirstRevisionMaterials
    /\ mAllRitems = <<>>
    /\ mRitemLayer = [l \in 0 .. (RenderLayerCount - 1) |-> <<>>]
    /\ mFrameResources = EmptyMap
    /\ mCurrFrameResourceIndex = 0
    /\ mCurrentFence = 0
    /\ completed = 0
    /\ mCurrBackBuffer = 0
    /\ cmdQueue = <<>>
    /\ pc = "init"
    /\ deltaTime = 0
    /\ cmdList = <<>>
    /\ numUpdates = 0
    /\ stamped = {}
    /\ itemVer = <<>>
    /\ matVer = [n \in DOMAIN FirstRevisionMaterials |-> 1]
    /\ itemSince = <<>>
    /\ matSince = [n \in DOMAIN FirstRevisionMaterials |-> 0]
    /\ mCamera = InitialCamera
    /\ player = InitialPlayer
    /\ exception = "none"
    /\ diagnostics = 0

NextFirstRevision ==
    \/ MakeThingFirstRevision
    \/ OpaqueRitemsFirstRevision
    \/ BuildFrameResources

SpecFirstRevision == InitFirstRevision /\ [][NextFirstRevision]_vars

\* The scene is built: BuildRenderItems has returned.
SceneBuilt ==
    initPc \notin {"BuildShapeGeometry", "BuildTreeSpritesGeometry",
                   "BuildMaterials", "BuildRenderItems"}

ObjCBIndices == { mAllRitems[i].ObjCBIndex : i \in DOMAIN mAllRitems }

\* C12: once the scene is built, the ObjCBIndex values of the render items are
\* pairwise distinct and are exactly 0 .. item count - 1.  It holds in the
\* latest revision (Spec, SpecBake); in the first revision the counter starts
\* at an indeterminate value.
C12_UniqueAndDense ==
    SceneBuilt =>
        /\ Cardinality(ObjCBIndices) = Len(mAllRitems)
        /\ ObjCBIndices = 0 .. (Len(mAllRitems) - 1)

\* ------------------------------------------------------------ oversized meshes

\* Generated meshes of which one, the box or the grid, has BigVerts vertices
\* (and one triangle, which uses the last of them).
BigInputs ==
    { [DefaultSizes EXCEPT ![MeshOrder[i]] = [nv |-> BigVerts, nt |-> 1]] : i \in 1 .. 2 }

\* Initialize for meshes within the bounds and for oversized ones.
InitBakeBig ==
    /\ initPc = "BuildShapeGeometry"
    /\ \E ms \in BakeInputs \cup BigInputs : Unbuilt(ms)

SpecBakeBig == InitBakeBig /\ [][NextBake]_vars

\* The vertices of all the meshes together: totalVertexCount.
TotalVertexCount ==
    SumSeq([i \in DOMAIN MeshOrder |-> Len(Mesh(MeshOrder[i]).Vertices)])

\* C13: BuildShapeGeometry does not complete for meshes of more than 65536
\* vertices together, and it never leaves a 16-bit index buffer in which an
\* index of a mesh has been truncated.
C13_OverflowIsFatal ==
    "shapeGeo" \in DOMAIN mGeometries =>
        /\ TotalVertexCount <= 65536
        /\ \A n \in MeshNames : IndexSlice(n) = Mesh(n).Indices32

\* ------------------------------------------------------------ MakeThing with any names

\* The mesh names and material names a call of MakeThing may be given: names
\* that are keys of the tables, and one of each that is not.
CallNames == {"box", "grid", "torus"}
CallMaterials == {"wirefence", "water", "stone0"}

\* A call MakeThing(name, material, type, (1,1,1), (0,0,0), (1,1)).
CallOf(name, material, type) ==
    [ name |-> name, material |-> material, type |-> type,
      scale |-> <<10, 10, 10>>, pos |-> <<0, 0, 0>>, tex |-> <<10, 10>> ]

\* The scene as the variables hold it.
SceneNow ==
    [ mats |-> mMaterials, geos |-> mGeometries, all |-> mAllRitems,
      layers |-> mRitemLayer, objectIndexnumber |-> objectIndexnumber ]

\* One call of MakeThing, with any of the names.
MakeThingAny ==
    /\ initPc = "BuildRenderItems"
    /\ Len(mAllRitems) <= MaxCalls
    /\ \E name \in CallNames, material \in CallMaterials, type \in {Opaque, Transparent} :
         LET sc == MakeThing(SceneNow, CallOf(name, material, type))
         IN  /\ mAllRitems' = sc.all
             /\ mRitemLayer' = sc.layers
             /\ mMaterials' = sc.mats
             /\ mGeometries' = sc.geos
             /\ objectIndexnumber' = sc.objectIndexnumber
    /\ itemVer' = [i \in DOMAIN mAllRitems' |-> 1]
    /\ itemSince' = [i \in DOMAIN mAllRitems' |-> 0]
    /\ UNCHANGED <<meshes, initPc, pc, matVer, matSince>>
    /\ UNCHANGED frameVars
    /\ UNCHANGED envVars

\* BuildRenderItems has made the tree sprites item; the calls of MakeThing follow.
InitScene ==
    LET geos == MapPut(MapPut(EmptyMap, "shapeGeo", ShapeGeo(DefaultMeshes)),
                       "treeSpritesGeo", TreeSpritesGeo)
        sc == TreeSpritesItem(EmptyScene(BuildMaterialsResult, geos))
    IN  /\ meshes = DefaultSizes
        /\ mGeometries = sc.geos
        /\ initPc = "BuildRenderItems"
        /\ mMaterials = sc.mats
        /\ mAllRitems = sc.all
        /\ mRitemLayer = sc.layers
        /\ objectIndexnumber = sc.objectIndexnumber
        /\ mFrameResources = EmptyMap
        /\ mCurrFrameResourceIndex = 0
        /\ mCurrentFence \in 0 .. MaxInitFence
        /\ completed = mCurrentFence
        /\ mCurrBackBuffer = 0
        /\ cmdQueue = <<>>
        /\ pc = "init"
        /\ deltaTime = 0
        /\ cmdList = <<>>
        /\ numUpdates = 0
        /\ stamped = {}
        /\ itemVer = [i \in DOMAIN sc.all |-> 1]
        /\ matVer = [n \in DOMAIN sc.mats |-> 1]
        /\ itemSince = [i \in DOMAIN sc.all |-> 0]
        /\ matSince = [n \in DOMAIN sc.mats |-> 0]
        /\ mCamera = InitialCamera
        /\ player = InitialPlayer
        /\ exception = "none"
        /\ diagnostics = 0

NextScene == MakeThingAny

SpecScene == InitScene /\ [][NextScene]_vars

\* C14: no render item has a null material or the mesh range of a
\* default-constructed entry, and the lookups of MakeThing add no key to
\* mMaterials or to the DrawArgs of "shapeGeo".
C14_MissingNameFailsLoudly ==
    /\ \A i \in DOMAIN mAllRitems :
         /\ mAllRitems[i].Mat # "nullptr"
         /\ mAllRitems[i].IndexCount # 0
    /\ DOMAIN mMaterials = DOMAIN BuildMaterialsResult
    /\ DOMAIN mGeometries["shapeGeo"].DrawArgs = MeshNames

\* ------------------------------------------------------------ Walking about

\* The right, up and look vectors the model gives the camera: looking along +Z
\* (as constructed), along +X (after RotateY by a quarter turn), and straight
\* up (after Pitch by a quarter turn).
Orientations ==
    { [mRight |-> <<1, 0, 0>>, mUp |-> <<0, 1, 0>>, mLook |-> <<0, 0, 1>>],
      [mRight |-> <<0, 0, -1>>, mUp |-> <<0, 1, 0>>, mLook |-> <<1, 0, 0>>],
      [mRight |-> <<1, 0, 0>>, mUp |-> <<0, 0, -1>>, mLook |-> <<0, 1, 0>>] }

Turned(cam, o) == [cam EXCEPT !.mRight = o.mRight, !.mUp = o.mUp, !.mLook = o.mLook]

\* ShapesApp::OnMouseMove with the left button down: Pitch and RotateY turn the
\* camera; its position stays.
OnMouseMove ==
    /\ pc = "update"
    /\ \E o \in Orientations : /\ mCamera' = Turned(mCamera, o)
                               /\ mCamera' # mCamera
    /\ UNCHANGED <<meshes, mGeometries, initPc, mMaterials, mAllRitems, mRitemLayer,
                   pc, itemVer, matVer, itemSince, matSince,
                   objectIndexnumber, player, exception, diagnostics>>
    /\ UNCHANGED frameVars

\* Where the camera has walked to when the model starts to watch it (x, z in
\* tenths): its initial place, in front of the back wall, and near the origin.
CameraStarts == { <<0, -1500>>, <<0, 210>>, <<5, 215>>, <<20, 10>>, <<0, 30>> }

InitCamera ==
    \E xz \in CameraStarts :
        InitWith(SetPosition(InitialCamera, <<xz[1], CameraHeight, xz[2]>>))

\* The message loop with the keyboard and the mouse in use. Within the first
\* gNumFrameResources calls of Update every slot's fence is still 0, so Update
\* does not wait on the fence.
NextCamera ==
    \/ \E dt \in 0 .. MaxDt, keys \in SUBSET Keys :
          numUpdates < MaxCameraTicks /\ UpdateEnterKeys(dt, keys)
    \/ OnMouseMove
    \/ UpdateBody
    \/ Draw
    \/ GpuExecute
    \/ GpuSignal

SpecCamera == InitCamera /\ [][NextCamera]_vars

\* The render items tagged as walls: a box with the material "wirefence".
Walls == {i \in DOMAIN mAllRitems :
            mAllRitems[i].name = "box" /\ mAllRitems[i].Mat = "wirefence"}

\* The penetration of the player box into the box of item i along axis a.
Penetration(i, a) ==
    player.Extents[a] + mAllRitems[i].box.Extents[a]
        - Abs(mAllRitems[i].box.Center[a] - player.Center[a])

\* The walls the player box overlaps in both X and Z.
WallsHit == {i \in Walls : Penetration(i, 1) >= 0 /\ Penetration(i, 3) >= 0}

\* The camera has moved by depth along axis a, away from the centre of wall i,
\* and not along the other axes.
PushedAway(i, a, depth) ==
    LET from == mCamera.mPosition
        to   == mCamera'.mPosition
        wall == mAllRitems[i].box.Center[a]
    IN  /\ \A b \in {1, 2, 3} \ {a} : to[b] = from[b]
        /\ Abs(to[a] - from[a]) = depth
        /\ player.Center[a] < wall => to[a] <= from[a]
        /\ player.Center[a] > wall => to[a] >= from[a]

\* The step of Update that runs Collision.
CollisionStep == pc = "body" /\ pc' = "draw"

\* C15, first part: the player box overlaps exactly one wall, and Collision
\* moves the camera by the penetration depth along the axis of smaller
\* penetration (Z when equal), away from the wall.
C15_OneWallResolved ==
    [][CollisionStep /\ Cardinality(WallsHit) = 1 =>
         LET i == CHOOSE w \in WallsHit : TRUE
         IN  IF Penetration(i, 1) < Penetration(i, 3)
             THEN PushedAway(i, 1, Penetration(i, 1))
             ELSE PushedAway(i, 3, Penetration(i, 3))]_vars

\* C15: Collision resolves an overlap with exactly one wall along the axis of
\* smaller penetration by the penetration depth, and does not move the camera
\* when the player box overlaps no wall.
C15_CollisionContract ==
    [][CollisionStep =>
         /\ Cardinality(WallsHit) = 1 =>
              LET i == CHOOSE w \in WallsHit : TRUE
              IN  IF Penetration(i, 1) < Penetration(i, 3)
                  THEN PushedAway(i, 1, Penetration(i, 1))
                  ELSE PushedAway(i, 3, Penetration(i, 3))
         /\ WallsHit = {} => mCamera'.mPosition = mCamera.mPosition]_vars

\* C16: when Update has ended, the camera is at the constant height.
C16_HeightPinned == pc = "draw" => mCamera.mPosition[2] = CameraHeight

\* Update has ended, with the camera looking up, time having passed and
\* Collision having moved the camera.
C16_Witness ==
    /\ pc = "draw"
    /\ numUpdates > 0
    /\ deltaTime > 0
    /\ mCamera.mLook = <<0, 1, 0>>
    /\ mCamera.mPosition # player.Center

\* ------------------------------------------------------------ Failing calls

\* The calls whose result goes to ThrowIfFailed: those of Initialize (one site
\* for all), SetEventOnCompletion in Update, and the four of Draw.
ThrowSites ==
    {"Initialize", "SetEventOnCompletion", "AllocatorReset", "CommandListReset",
     "Close", "Present"}

\* A call returns a failed HRESULT and ThrowIfFailed throws a DxException: the
\* handler is left where it stands. Close fails with the frame recorded;
\* Present fails with the command list already handed to the queue, the slot
\* not stamped and the fence not signalled.
ThrowIfFailed(site) ==
    /\ exception = "none"
    /\ CASE site = "Initialize" -> pc = "init" /\ initPc # "done"
         [] site = "SetEventOnCompletion" -> pc = "wait"
         [] OTHER -> pc = "draw"
    /\ exception' = "DxException"
    /\ pc' = "unwinding"
    /\ initPc' = IF site = "Initialize" THEN "failed" ELSE initPc
    /\ cmdList' = IF site \in {"Close", "Present"} THEN RecordFrame ELSE cmdList
    /\ cmdQueue' = IF site = "Present"
                   THEN Append(cmdQueue, [op |-> "ExecuteCommandLists", slot |-> cur])
                   ELSE cmdQueue
    /\ UNCHANGED <<meshes, mGeometries, mMaterials, mAllRitems, mRitemLayer,
                   mFrameResources, mCurrFrameResourceIndex, mCurrentFence,
                   mCurrBackBuffer, completed, deltaTime, numUpdates, stamped,
                   itemVer, matVer, itemSince, matSince,
                   objectIndexnumber, mCamera, player, diagnostics>>

\* The exception leaves the try block of WinMain: theApp is destroyed, and
\* ~ShapesApp calls FlushCommandQueue, which signals the fence with a new value.
Unwind ==
    /\ pc = "unwinding"
    /\ mCurrentFence' = mCurrentFence + 1
    /\ cmdQueue' = Append(cmdQueue, [op |-> "Signal", value |-> mCurrentFence'])
    /\ pc' = "flush"
    /\ UNCHANGED <<meshes, mGeometries, initPc, mMaterials, mAllRitems, mRitemLayer,
                   mFrameResources, mCurrFrameResourceIndex, mCurrBackBuffer,
                   completed, deltaTime, cmdList, numUpdates, stamped,
                   itemVer, matVer, itemSince, matSince>>
    /\ UNCHANGED appVars

\* FlushCommandQueue returns when the GPU has reached the value.
FlushWait ==
    /\ pc = "flush"
    /\ completed >= mCurrentFence
    /\ pc' = "caught"
    /\ UNCHANGED <<meshes, mGeometries, initPc, mMaterials, mAllRitems, mRitemLayer,
                   itemVer, matVer, itemSince, matSince>>
    /\ UNCHANGED frameVars
    /\ UNCHANGED appVars

\* Faulty variant: the handler starts the frame loop again.
AfterCatchRetry == "update"

\* "return 0" of the handler of WinMain.
AfterCatch == "ended"

\* catch (DxException& e) of WinMain: one MessageBox, then the process ends.
WinMainCatch ==
    /\ pc = "caught"
    /\ diagnostics' = diagnostics + 1
    /\ exception' = IF AfterCatch = "ended" THEN exception ELSE "none"
    /\ pc' = AfterCatch
    /\ UNCHANGED <<meshes, mGeometries, initPc, mMaterials, mAllRitems, mRitemLayer,
                   itemVer, matVer, itemSince, matSince,
                   objectIndexnumber, mCamera, player>>
    /\ UNCHANGED frameVars

InitFail ==
    /\ initPc = "BuildShapeGeometry"
    /\ Unbuilt(DefaultSizes)

\* WinMain: Initialize, then the message loop, any call of theirs failing.
NextFail ==
    \/ NextBake
    \/ \E dt \in 0 .. MaxDt : numUpdates < MaxLoopTicks /\ UpdateEnter(dt)
    \/ FenceWait
    \/ UpdateBody
    \/ Draw
    \/ GpuExecute
    \/ GpuSignal
    \/ \E site \in ThrowSites : ThrowIfFailed(site)
    \/ Unwind
    \/ FlushWait
    \/ WinMainCatch

\* The unwinding and the handler run to their end, and the GPU works off its queue.
SpecFail ==
    /\ InitFail
    /\ [][NextFail]_vars
    /\ WF_vars(Unwind) /\ WF_vars(FlushWait) /\ WF_vars(WinMainCatch)
    /\ WF_vars(GpuExecute) /\ WF_vars(GpuSignal)

\* The command lists handed to the queue that the GPU has not finished.
Submitted == Len(SelectSeq(cmdQueue, LAMBDA c : c.op = "ExecuteCommandLists"))

NextLive ==
    \/ \E dt \in 0 .. MaxDt : numUpdates < MaxLoopTicks /\ UpdateEnter(dt)
    \/ FenceWait
    \/ UpdateBody
    \/ Draw
    \/ GpuExecute
    \/ GpuSignal

\* The GPU works off its queue, and the thread of the frame loop runs on
\* whenever it is not blocked. The rest of Update is enabled exactly when
\* pc = "body" and leaves it, so that weak fairness of UpdateBody is
\* []<>(pc # "body").
SpecLive ==
    /\ Init
    /\ [][NextLive]_vars
    /\ WF_vars(GpuExecute) /\ WF_vars(GpuSignal)
    /\ WF_vars(FenceWait) /\ WF_vars(Draw)
    /\ []<>(pc # "body")

\* The fence value has been reached, or a Signal of it is in the queue.
Signalled(value) ==
    \/ completed >= value
    \/ \E i \in DOMAIN cmdQueue : cmdQueue[i].op = "Signal" /\ cmdQueue[i].value >= value

\* C19: under fair GPU progress every Update gets past the fence wait and the
\* frame of every tick is submitted; Update only ever waits for a fence value
\* whose Signal was queued.
C19_UpdateGetsPastWait ==
    /\ [](pc = "wait" => Signalled(mFrameResources[cur].Fence))
    /\ (pc = "wait") ~> (pc = "body")
    /\ (pc \in {"wait", "body", "draw"}) ~> (pc = "update")

\* Update is blocked in the wait: the GPU has not reached the slot's fence.
C19_Witness ==
    /\ pc = "wait"
    /\ completed < mFrameResources[cur].Fence

\* ------------------------------------------------------------ What Draw leaves alone

\* The step of the frame loop that is a whole Draw.
DrawStep == pc = "draw" /\ pc' = "update"

\* The constant buffers of a frame resource.
Buffers(fr) == <<fr.ObjectCB, fr.MaterialCB, fr.PassCB>>

\* C20: a Draw changes no render item, material (dirty counts included), layer
\* list or mesh range and no constant buffer of any slot; of the frame
\* resources only the fence of the current slot changes.
C20_DrawOnlyEmits ==
    [][DrawStep =>
         /\ mAllRitems' = mAllRitems
         /\ mMaterials' = mMaterials
         /\ mRitemLayer' = mRitemLayer
         /\ mGeometries' = mGeometries
         /\ mCurrFrameResourceIndex' = mCurrFrameResourceIndex
         /\ \A s \in Slots : Buffers(mFrameResources'[s]) = Buffers(mFrameResources[s])
         /\ \A s \in Slots \ {cur} : mFrameResources'[s] = mFrameResources[s]]_vars

\* A Draw has run after the ring has gone round: it has recorded the frame and
\* stamped a slot that had a stamp before.
C20_Witness ==
    /\ pc = "update"
    /\ numUpdates > gNumFrameResources
    /\ cmdList # <<>>
    /\ mFrameResources[cur].Fence = mCurrentFence
    /\ \A s \in Slots : mFrameResources[s].Fence # 0

\* ------------------------------------------------------------ Indices and base vertex

\* C21 as stated: the entry of the shared index buffer at StartIndexLocation + j
\* is the mesh's index j plus the mesh's base vertex offset.
C21_IndicesRebased ==
    "shapeGeo" \in DOMAIN mGeometries =>
        \A n \in MeshNames : \A j \in DOMAIN Mesh(n).Indices32 :
            IndexSlice(n)[j]
                = Mesh(n).Indices32[j] + mGeometries["shapeGeo"].DrawArgs[n].BaseVertexLocation

\* C21 as amended: the entry of the shared index buffer at StartIndexLocation + j
\* is the mesh's index j cut to 16 bits, with no offset added; the base vertex
\* offset, the number of vertices baked before the mesh, is kept apart in
\* BaseVertexLocation.
C21_IndicesKeptWithBase ==
    "shapeGeo" \in DOMAIN mGeometries =>
        \A n \in MeshNames :
            /\ \A j \in DOMAIN Mesh(n).Indices32 :
                 IndexSlice(n)[j] = Mesh(n).Indices32[j] % 65536
            /\ mGeometries["shapeGeo"].DrawArgs[n].BaseVertexLocation
                 = SumSeq(VertexCountsBefore(MeshIndex(n)))

\* A mesh with a base vertex offset other than 0 has been baked, and one of its
\* entries in the shared index buffer is smaller than the offset.
C21_Witness ==
    /\ "shapeGeo" \in DOMAIN mGeometries
    /\ mGeometries["shapeGeo"].DrawArgs["grid"].BaseVertexLocation = 2
    /\ Len(Mesh("grid").Vertices) = 2
    /\ \E j \in DOMAIN IndexSlice("grid") : IndexSlice("grid")[j] = 1
    /\ \E j \in DOMAIN IndexSlice("grid") : IndexSlice("grid")[j] = 0

\* ------------------------------------------------------------ Fresh constants at Draw

\* C22: when Draw is about to run, the current slot holds, for every render
\* item and every material, the constants of the entity as it is now.
C22_CurrentSlotFresh ==
    pc = "draw" =>
        /\ \A i \in DOMAIN mAllRitems :
             ObjectCopy(cur, i).data = ObjectConstantsOf(mAllRitems[i])
        /\ \A n \in DOMAIN mMaterials :
             MaterialCopy(cur, n).data = MaterialConstantsOf(mMaterials[n])

\* Draw is about to run after the ring has gone round, the items and the
\* static materials are clean, and the water material has been scrolled.
C22_Witness ==
    /\ pc = "draw"
    /\ numUpdates > gNumFrameResources
    /\ mAllRitems[1].NumFramesDirty = 0
    /\ mMaterials["grass"].NumFramesDirty = 0
    /\ mMaterials["water"].MatTransform[4][1] # 0

\* ------------------------------------------------------------ Back buffer transitions

\* The state of the back buffer after the first k commands of the frame that
\* Draw recorded; a frame starts with the buffer in PRESENT.
RECURSIVE BufferStateAfter(_)
BufferStateAfter(k) ==
    IF k = 0 THEN "PRESENT"
    ELSE IF cmdList[k].op = "ResourceBarrier" THEN cmdList[k].after
         ELSE BufferStateAfter(k - 1)

\* The transitions of the frame from one state to another.
Transitions(before, after) ==
    {k \in DOMAIN cmdList : /\ cmdList[k].op = "ResourceBarrier"
                            /\ cmdList[k].before = before
                            /\ cmdList[k].after = after}

\* C23: the frame Draw recorded has one transition PRESENT -> RENDER_TARGET and
\* one RENDER_TARGET -> PRESENT, every draw call is recorded with the back
\* buffer in RENDER_TARGET, and every transition names as 'before' the state
\* the buffer is in.
C23_TransitionsBracketDraws ==
    cmdList # <<>> =>
        /\ Cardinality(Transitions("PRESENT", "RENDER_TARGET")) = 1
        /\ Cardinality(Transitions("RENDER_TARGET", "PRESENT")) = 1
        /\ \A k \in DOMAIN cmdList :
             /\ cmdList[k].op = "DrawIndexedInstanced" =>
                  BufferStateAfter(k - 1) = "RENDER_TARGET"
             /\ cmdList[k].op = "ResourceBarrier" =>
                  cmdList[k].before = BufferStateAfter(k - 1)

\* ------------------------------------------------------------ What Collision tests

\* The render items tagged as walls, in the order of mAllRitems.
WallItems ==
    SelectSeq(mAllRitems, LAMBDA e : e.name = "box" /\ e.Mat = "wirefence")

\* C24: Collision moves the camera as the walls alone would: an item that is
\* not a box of material "wirefence" has no part in it.
C24_OnlyWallsCollide ==
    [][CollisionStep =>
         mCamera'.mPosition = Collision(mCamera, player, WallItems).mPosition]_vars

\* ------------------------------------------------------------ A corner of two walls

\* Calls of MakeThing in BuildRenderItems that make a corner: a grass ground
\* box, the left outer wall and the back left outer wall.
CornerCalls ==
    << [name |-> "box", material |-> "grass", type |-> Opaque,
        scale |-> <<3000, 100, 1000>>, pos |-> <<0, -50, 200>>, tex |-> <<1500, 500>>],
       [name |-> "box", material |-> "wirefence", type |-> Opaque,
        scale |-> <<10, 150, 1000>>, pos |-> <<-250, 75, -1100>>, tex |-> <<50, 50>>],
       [name |-> "box", material |-> "wirefence", type |-> Opaque,
        scale |-> <<200, 150, 10>>, pos |-> <<-150, 75, -1600>>, tex |-> <<50, 50>>] >>

\* Where the camera has walked to, outside the corner and clear of both walls
\* (x, z in tenths).
CornerStarts == { <<-270, -1615>>, <<-270, -1600>>, <<-230, -1580>> }

InitCorner ==
    \E xz \in CornerStarts :
        InitOf(SetPosition(InitialCamera, <<xz[1], CameraHeight, xz[2]>>), CornerCalls)

NextCorner ==
    \/ \E dt \in 0 .. MaxCornerDt, keys \in SUBSET Keys :
          numUpdates < MaxCameraTicks /\ UpdateEnterKeys(dt, keys)
    \/ OnMouseMove
    \/ UpdateBody
    \/ Draw
    \/ GpuExecute
    \/ GpuSignal

SpecCorner == InitCorner /\ [][NextCorner]_vars

\* The items named "box" that the player box overlaps in both X and Z.
BoxesHit ==
    {i \in DOMAIN mAllRitems : /\ mAllRitems[i].name = "box"
                               /\ Penetration(i, 1) >= 0
                               /\ Penetration(i, 3) >= 0}

\* The smaller of the two penetrations of the player box into the box of item i.
MinPenetration(i) ==
    IF Penetration(i, 1) < Penetration(i, 3) THEN Penetration(i, 1) ELSE Penetration(i, 3)

RECURSIVE SumOver(_, _)
SumOver(f(_), S) ==
    IF S = {} THEN 0
    ELSE LET x == CHOOSE y \in S : TRUE IN f(x) + SumOver(f, S \ {x})

\* The penetration along axis a of a player box centred at p into the box of item i.
PenetrationAt(p, i, a) ==
    player.Extents[a] + mAllRitems[i].box.Extents[a]
        - Abs(mAllRitems[i].box.Center[a] - p[a])

\* C25: one Collision pass moves the camera along X and Z only, by no more in
\* all than one correction per box overlapped, each of that box's smaller
\* penetration; it does not move the camera when no box is overlapped.
C25_OneCorrectionPerWall ==
    [][CollisionStep =>
         /\ mCamera'.mPosition[2] = mCamera.mPosition[2]
         /\ Abs(mCamera'.mPosition[1] - mCamera.mPosition[1])
              + Abs(mCamera'.mPosition[3] - mCamera.mPosition[3])
              <= SumOver(MinPenetration, BoxesHit)]_vars

\* Update has ended; the player box overlapped two walls, one correction was
\* made for each, and a player box at the corrected camera position still
\* penetrates a wall.
C25_Witness ==
    /\ pc = "draw"
    /\ Cardinality(WallsHit) = 2
    /\ mCamera.mPosition # player.Center
    /\ \E i \in Walls : /\ PenetrationAt(mCamera.mPosition, i, 1) > 0
                        /\ PenetrationAt(mCamera.mPosition, i, 3) > 0

\* ------------------------------------------------------------ The wait has no way out

\* C26: while Update waits and the completed value stays below the fence
\* stamped on the selected slot, Update stays in the wait: no constants are
\* written, the ring does not advance, no tick starts and no frame is
\* submitted or stamped.
C26_WaitEndsOnlyAtFence ==
    [][pc = "wait" /\ completed' < mFrameResources[cur].Fence =>
         /\ pc' = "wait"
         /\ mFrameResources' = mFrameResources
         /\ mCurrFrameResourceIndex' = mCurrFrameResourceIndex
         /\ numUpdates' = numUpdates
         /\ mCurrentFence' = mCurrentFence
         /\ cmdList' = cmdList
         /\ Submitted' <= Submitted]_vars

\* Update is in the wait of a tick after the ring has gone round, and the
\* GPU has not reached the fence of the selected slot.
C26_Witness ==
    /\ pc = "wait"
    /\ completed < mFrameResources[cur].Fence
    /\ numUpdates > gNumFrameResources

\* ------------------------------------------------------------ The player box stays put

\* The correction box i asks for along X, computed from the player centre.
CorrectionX(i) ==
    IF Penetration(i, 1) < Penetration(i, 3)
    THEN IF mAllRitems[i].box.Center[1] < player.Center[1]
         THEN Penetration(i, 1) ELSE 0 - Penetration(i, 1)
    ELSE 0

\* The correction box i asks for along Z, computed from the player centre.
CorrectionZ(i) ==
    IF Penetration(i, 1) < Penetration(i, 3)
    THEN 0
    ELSE IF mAllRitems[i].box.Center[3] < player.Center[3]
         THEN Penetration(i, 3) ELSE 0 - Penetration(i, 3)

\* C27: the player centre is the camera position left by OnKeyboardInput until
\* Collision runs; Collision leaves the player box as it is, and moves the
\* camera by the sum of the corrections of the boxes overlapped, each computed
\* from that tick-start centre.
C27_CorrectionsFromTickStart ==
    /\ [](pc \in {"wait", "body"} => player.Center = mCamera.mPosition)
    /\ [][CollisionStep =>
            /\ player' = player
            /\ mCamera'.mPosition[1] - mCamera.mPosition[1] = SumOver(CorrectionX, BoxesHit)
            /\ mCamera'.mPosition[2] = mCamera.mPosition[2]
            /\ mCamera'.mPosition[3] - mCamera.mPosition[3] = SumOver(CorrectionZ, BoxesHit)]_vars

\* Update has ended after a pass in which two walls were overlapped, both asked
\* for a correction along Z, in opposite directions, and the camera has moved
\* by their sum while the player box is where the tick started.
C27_Witness ==
    /\ pc = "draw"
    /\ \E i, j \in WallsHit : CorrectionZ(i) < 0 /\ CorrectionZ(j) > 0
    /\ mCamera.mPosition[3] - player.Center[3] = SumOver(CorrectionZ, WallsHit)
    /\ mCamera.mPosition[3] # player.Center[3]

\* ------------------------------------------------------------ The eye lags the correction

\* The keys held on the walk into the corner.
CornerKeys == {"W", "D"}

\* The walk starts clear of both walls.
InitWalk ==
    InitOf(SetPosition(InitialCamera, <<-270, CameraHeight, -1615>>), CornerCalls)

NextWalk ==
    \/ \E dt \in 0 .. MaxCornerDt, keys \in SUBSET CornerKeys :
          numUpdates < MaxCornerTicks /\ UpdateEnterKeys(dt, keys)
    \/ OnMouseMove
    \/ UpdateBody
    \/ Draw
    \/ GpuExecute
    \/ GpuSignal

SpecWalk == InitWalk /\ [][NextWalk]_vars

\* The pass constants in slot s.
PassConstants(s) == mFrameResources[s].PassCB.data

\* The slot of the tick before.
PrevSlot == (mCurrFrameResourceIndex + gNumFrameResources - 1) % gNumFrameResources

\* C28: the eye position and the position of the camera's light that Update
\* writes into the current slot are the camera position before the tick's
\* collision correction, so in Draw the slot holds the tick-start position
\* (the player centre), whatever the correction was; the next tick starts from
\* the corrected camera, so with nothing to move it the correction is in that
\* tick's pass constants.
C28_EyeBeforeCorrection ==
    /\ [][CollisionStep =>
            /\ PassConstants(cur)'.EyePosW = mCamera.mPosition
            /\ PassConstants(cur)'.CameraLight = mCamera.mPosition]_vars
    /\ [](pc = "draw" => PassConstants(cur).EyePosW = player.Center)
    /\ [][pc = "update" /\ pc' # "update" /\ deltaTime' = 0 =>
            mCamera'.mPosition = <<mCamera.mPosition[1], CameraHeight, mCamera.mPosition[3]>>]_vars

\* The tick before was corrected: its slot holds an eye position that is not
\* where that tick left the camera. This tick moved nothing, and its slot, at
\* Draw, holds the corrected position.
C28_Witness ==
    /\ pc = "draw"
    /\ numUpdates = 2
    /\ deltaTime = 0
    /\ PassConstants(cur).EyePosW = <<-250, CameraHeight, -1600>>
    /\ PassConstants(PrevSlot).EyePosW = <<-250, CameraHeight, -1595>>
    /\ PassConstants(PrevSlot).CameraLight = <<-250, CameraHeight, -1595>>

\* ------------------------------------------------------------ The water is always dirty

\* The materials AnimateMaterials leaves alone.
StillMaterials == DOMAIN mMaterials \ {"water"}

\* C29: the water material's dirty count is never 0, and is N - 1 whenever an
\* Update has ended; every Update copies the water's constants, as they are
\* then, into the current slot. Every other material is copied into the
\* current slot, which does not hold it yet, in each of the first N Updates,
\* and no Update after those writes it or changes its count.
C29_WaterEveryTickOthersOnce ==
    /\ [](mMaterials["water"].NumFramesDirty > 0)
    /\ [](numUpdates > 0 /\ pc \in {"draw", "update"} =>
             mMaterials["water"].NumFramesDirty = gNumFrameResources - 1)
    /\ [][CollisionStep =>
            /\ MaterialCopy(cur, "water")'.ver = matVer["water"] + 1
            /\ MaterialCopy(cur, "water")'.data = MaterialConstantsOf(mMaterials'["water"])
            /\ \A n \in StillMaterials :
                 IF numUpdates <= gNumFrameResources
                 THEN /\ SameCopy(MaterialCopy(cur, n), NoData)
                      /\ MaterialCopy(cur, n)'.data = MaterialConstantsOf(mMaterials[n])
                      /\ mMaterials'[n].NumFramesDirty = gNumFrameResources - numUpdates
                 ELSE /\ MaterialCopy(cur, n)' = MaterialCopy(cur, n)
                      /\ mMaterials[n].NumFramesDirty = 0
                      /\ mMaterials'[n] = mMaterials[n]]_vars

\* The ring has gone round more than once: the slot now current was written in
\* this Update with the water's constants of this tick, which are not those of
\* the slot written one tick before, while the grass is the same in both.
C29_Witness ==
    /\ pc = "draw"
    /\ numUpdates > gNumFrameResources + 1
    /\ mMaterials["water"].NumFramesDirty = gNumFrameResources - 1
    /\ MaterialCopy(cur, "water").data # MaterialCopy(PrevSlot, "water").data
    /\ MaterialCopy(cur, "water").ver = MaterialCopy(PrevSlot, "water").ver + 1
    /\ MaterialCopy(cur, "grass") = MaterialCopy(PrevSlot, "grass")
    /\ mMaterials["grass"].NumFramesDirty = 0

\* ------------------------------------------------------------ Indices into the constant arrays

\* C30: once the frame resources are built, in every slot the object-constant
\* array has one entry per render item and the material-constant array one per
\* material, and the ObjCBIndex of every item, the MatCBIndex of every
\* material and that of every item's material are indices into them.
C30_IndicesValid ==
    initPc = "done" =>
        \A s \in Slots :
            /\ DOMAIN mFrameResources[s].ObjectCB = 0 .. (Len(mAllRitems) - 1)
            /\ DOMAIN mFrameResources[s].MaterialCB = 0 .. (Cardinality(DOMAIN mMaterials) - 1)
            /\ \A i \in DOMAIN mAllRitems :
                 /\ mAllRitems[i].ObjCBIndex \in DOMAIN mFrameResources[s].ObjectCB
                 /\ mMaterials[mAllRitems[i].Mat].MatCBIndex \in DOMAIN mFrameResources[s].MaterialCB
            /\ \A n \in DOMAIN mMaterials :
                 mMaterials[n].MatCBIndex \in DOMAIN mFrameResources[s].MaterialCB

====
